---- MODULE Spec2Model ----
(***************************************************************************)
(* Model of the document-to-type resolution engine                         *)
(* (SelectionSetToObject), of the type-modifier wrappers of the TypeScript *)
(* and Flow document visitors, and of the federation key translator        *)
(* (ApolloFederation).                                                     *)
(*                                                                         *)
(* Selection nodes live in a heap (a sequence of node records addressed by *)
(* their index) because the code shares field nodes between concrete types *)
(* and mergeSelectionSets changes a node's selection set in place.         *)
(* Generated type text is kept as a structured expression: one record per  *)
(* operand, intersection and union, so that "bare", "intersection of k"    *)
(* and "union of k" are different values.                                  *)
(***************************************************************************)
EXTENDS Integers, Sequences, FiniteSets, TLC

VARIABLES
    \* ---- selection-set transformation -------------------------------
    document,    \* the selection AST as parsed (never written)
    heap,        \* Seq(node): the selection AST, node id = index
    rootSel,     \* Seq(id): this._selectionSet.selections
    parentType,  \* this._parentSchemaType (a type name)
    cfg,         \* this._config, the processor choice and the schema's isTypeOf
    pc,          \* position inside transformSelectionSet
    typeMap,     \* result of flattenSelectionSet
    grouped,     \* Seq of [typeName, set]: _buildGroupedSelections' accumulator
    out,         \* the text returned by transformSelectionSet
    err,         \* the error thrown, NoErr when none
    docValid,    \* the document passes GraphQL validation against the schema
    fragmentName,   \* transformFragmentSelectionSetToTypes: the fragment declared
    suffixArg,      \* its fragmentSuffix argument
    declarations,   \* the declarations it returns, Seq of [name, content]
    \* ---- wrapTypeWithModifiers --------------------------------------
    wType,       \* Seq of "L"/"NN", outermost first, over a named type
    wBase,       \* the text of the named type (the nested selection's text)
    wCfg,        \* [immutableTypes, namespaced]
    wDone,       \* number of wrappers (from the innermost) already applied
    wStarted,    \* the named type itself has been rendered
    tsText,      \* TypeScript text built so far (Seq of tokens)
    flowText,    \* Flow text built so far (Seq of tokens)
    \* ---- federation --------------------------------------------------
    fedEnabled,  \* ApolloFederation.enabled
    fedSchema,   \* the schema's field definitions with their provides directives
    fedPc,       \* "new", "ready", "failed" (the constructor threw), "returned"
    providesMap, \* ApolloFederation.providesMap
    fedCall,     \* the last call made on the translator
    fedResult    \* what it returned (or the error it threw)

fragVars == <<fragmentName, suffixArg, declarations>>
selVars == <<document, heap, rootSel, parentType, cfg, pc, typeMap, grouped, out, err, docValid,
             fragVars>>
wrapVars == <<wType, wBase, wCfg, wDone, wStarted, tsText, flowText>>
fedVars == <<fedEnabled, fedSchema, fedPc, providesMap, fedCall, fedResult>>
vars == <<selVars, wrapVars, fedVars>>

----------------------------------------------------------------------------
\* Bounds of the model

\* longest top-level selection drawn in Init
MaxSel == 2

----------------------------------------------------------------------------
\* The schema the selections are written against
\*   interface Node   { id: ID!  name: String  friend: Node  pals: [Node!]! }
\*   type Dog  implements Node { id name friend pals  bark: String  owner: Person! }
\*   type Cat  implements Node { id name friend pals  meow: String }
\*   type Person      { id: ID!  name: String  pet: Thing }
\*   union Thing = Dog | Person

ObjectTypes == {"Dog", "Cat", "Person", "__Type"}
InterfaceTypes == {"Node"}
UnionTypes == {"Thing"}

isObjectType(t) == t \in ObjectTypes
isInterfaceType(t) == t \in InterfaceTypes
isUnionType(t) == t \in UnionTypes

\* schema.getPossibleTypes(interface), in schema order
Implementors(t) == IF t = "Node" THEN <<"Dog", "Cat">> ELSE <<>>

\* union.getTypes()
UnionMembers(t) == IF t = "Thing" THEN <<"Dog", "Person">> ELSE <<>>

getPossibleTypes(t) ==
    IF isObjectType(t) THEN <<t>>
    ELSE IF isUnionType(t) THEN UnionMembers(t)
    ELSE IF isInterfaceType(t) THEN Implementors(t)
    ELSE <<>>

\* a field's declared output type: wrappers outermost first, over a named type
FT(mods, base) == [mods |-> mods, base |-> base]

NodeFields ==
    [id |-> FT(<<"NN">>, "ID"), name |-> FT(<<>>, "String"),
     friend |-> FT(<<>>, "Node"), pals |-> FT(<<"NN", "L", "NN">>, "Node")]

\* type.getFields()
getFields(t) ==
    IF t = "Dog" THEN
        [id |-> FT(<<"NN">>, "ID"), name |-> FT(<<>>, "String"),
         friend |-> FT(<<>>, "Node"), pals |-> FT(<<"NN", "L", "NN">>, "Node"),
         bark |-> FT(<<>>, "String"), owner |-> FT(<<"NN">>, "Person")]
    ELSE IF t = "Cat" THEN
        [id |-> FT(<<"NN">>, "ID"), name |-> FT(<<>>, "String"),
         friend |-> FT(<<>>, "Node"), pals |-> FT(<<"NN", "L", "NN">>, "Node"),
         meow |-> FT(<<>>, "String")]
    ELSE IF t = "Person" THEN
        [id |-> FT(<<"NN">>, "ID"), name |-> FT(<<>>, "String"),
         pet |-> FT(<<>>, "Thing")]
    ELSE IF t = "Node" THEN NodeFields
    ELSE IF t = "__Type" THEN
        [name |-> FT(<<>>, "String"), kind |-> FT(<<"NN">>, "String")]
    ELSE [none |-> FT(<<>>, "String")]

isMetadataFieldName(name) == name \in {"__schema", "__type"}

\* SchemaMetaFieldDef / TypeMetaFieldDef
metadataFieldMap ==
    [__schema |-> FT(<<"NN">>, "__Schema"), __type |-> FT(<<>>, "__Type")]

\* this._loadedFragments: the name, the type condition, and the fragments the
\* definition's own selection set spreads (F and G spread each other, as in
\*   fragment F on Node { id ...G }   fragment G on Dog { bark ...F }
\* while PetFragment spreads none)
loadedFragments ==
    << [name |-> "F", onType |-> "Node", spreads |-> <<"G">>],
       [name |-> "G", onType |-> "Dog", spreads |-> <<"F">>],
       [name |-> "PetFragment", onType |-> "Thing", spreads |-> <<>>] >>

\* spread.name.value.toLowerCase().endsWith('fragment')
EndsWithFragment(name) == name \in {"PetFragment"}

----------------------------------------------------------------------------
\* Selection AST

Field(name) == [kind |-> "Field", name |-> name, alias |-> "", cond |-> "", sel |-> <<>>]
Aliased(alias, name) == [kind |-> "Field", name |-> name, alias |-> alias, cond |-> "", sel |-> <<>>]
Link(name, sel) == [kind |-> "Field", name |-> name, alias |-> "", cond |-> "", sel |-> sel]
AliasedLink(alias, name, sel) == [kind |-> "Field", name |-> name, alias |-> alias, cond |-> "", sel |-> sel]
Inline(cond, sel) == [kind |-> "InlineFragment", name |-> "", alias |-> "", cond |-> cond, sel |-> sel]
Spread(name) == [kind |-> "FragmentSpread", name |-> name, alias |-> "", cond |-> "", sel |-> <<>>]

RECURSIVE AllocSeq(_, _)
\* one parsed node and its subtree placed in the heap
AllocNode(h, t) ==
    LET r == AllocSeq(h, t.sel)
    IN  [h |-> Append(r.h, [kind |-> t.kind, name |-> t.name, alias |-> t.alias,
                            cond |-> t.cond, sel |-> r.ids]),
         id |-> Len(r.h) + 1]

AllocSeq(h, ts) ==
    IF ts = <<>> THEN [h |-> h, ids |-> <<>>]
    ELSE LET a == AllocNode(h, Head(ts))
             b == AllocSeq(a.h, Tail(ts))
         IN  [h |-> b.h, ids |-> <<a.id>> \o b.ids]

----------------------------------------------------------------------------
\* Errors (thrown TypeErrors), as values

NoErr == [msg |-> "", type |-> "", field |-> ""]
NotAFunction == [msg |-> "isTypeOf is not a function", type |-> "", field |-> ""]
CouldNotFind(t, f) == [msg |-> "Could not find field type.", type |-> t, field |-> f]

----------------------------------------------------------------------------
\* The per-concrete-type map (Map<string, Array<SelectionNode | string>>)

NoTok == [name |-> "", typeName |-> "", suffix |-> ""]
NodeItem(id) == [tag |-> "node", id |-> id, tok |-> NoTok]
UsageItem(tok) == [tag |-> "usage", id |-> 0, tok |-> tok]

RECURSIVE MapSeq(_, _, _)
\* items.map(...) for the two item constructors
MapSeq(tag, xs, i) ==
    IF i > Len(xs) THEN <<>>
    ELSE <<IF tag = "node" THEN NodeItem(xs[i]) ELSE UsageItem(xs[i])>> \o MapSeq(tag, xs, i + 1)

NodeItems(ids) == MapSeq("node", ids, 1)
UsageItems(toks) == MapSeq("usage", toks, 1)

InSeq(x, xs) == \E i \in 1..Len(xs) : xs[i] = x

\* new Map(): keys in insertion order, no key set
EmptyTypes == [keys |-> <<>>, items |-> [t \in ObjectTypes |-> <<>>]]

appendToTypeMap(types, typeName, nodes) ==
    [keys |-> IF InSeq(typeName, types.keys) THEN types.keys ELSE Append(types.keys, typeName),
     items |-> [types.items EXCEPT ![typeName] = @ \o nodes]]

----------------------------------------------------------------------------
\* separateSelectionSet (utils): the selections split by kind, order kept

RECURSIVE FilterKind(_, _, _, _)
FilterKind(h, ids, kind, i) ==
    IF i > Len(ids) THEN <<>>
    ELSE (IF h[ids[i]].kind = kind THEN <<ids[i]>> ELSE <<>>) \o FilterKind(h, ids, kind, i + 1)

separateSelectionSet(h, ids) ==
    [fields |-> FilterKind(h, ids, "Field", 1),
     inlines |-> FilterKind(h, ids, "InlineFragment", 1),
     spreads |-> FilterKind(h, ids, "FragmentSpread", 1)]

----------------------------------------------------------------------------
\* buildFragmentTypeName / buildFragmentSpreadsUsage

\* convertName(name, {useTypesPrefix, suffix: typeName ? `_${typeName}_${suffix}` : suffix}):
\* the generated name is determined by the three parts kept here
buildFragmentTypeName(name, suffix, typeName) ==
    [name |-> name, typeName |-> typeName, suffix |-> suffix]

\* this._loadedFragments.find(lf => lf.name === name): index of the first, 0 if none
FindFragment(name) ==
    IF \E i \in 1..Len(loadedFragments) : loadedFragments[i].name = name
    THEN CHOOSE i \in 1..Len(loadedFragments) :
            /\ loadedFragments[i].name = name
            /\ \A j \in 1..(i - 1) : loadedFragments[j].name # name
    ELSE 0

EmptyUsage == [keys |-> <<>>, toks |-> [t \in ObjectTypes |-> <<>>]]

RECURSIVE SpreadUsageTypes(_, _, _, _)
\* the inner loop: one usage per possible type of the fragment's type condition
SpreadUsageTypes(acc, spreadName, pts, i) ==
    IF i > Len(pts) THEN acc
    ELSE LET fragmentSuffix ==
                 IF cfg.dedupeOperationSuffix /\ EndsWithFragment(spreadName)
                 THEN "" ELSE "Fragment"
             usage == buildFragmentTypeName(spreadName, fragmentSuffix,
                                            IF Len(pts) = 1 THEN "" ELSE pts[i])
             next == [keys |-> IF InSeq(pts[i], acc.keys) THEN acc.keys
                               ELSE Append(acc.keys, pts[i]),
                      toks |-> [acc.toks EXCEPT ![pts[i]] = Append(@, usage)]]
         IN  SpreadUsageTypes(next, spreadName, pts, i + 1)

RECURSIVE SpreadUsageLoop(_, _, _, _)
SpreadUsageLoop(h, acc, spreads, i) ==
    IF i > Len(spreads) THEN acc
    ELSE LET name == h[spreads[i]].name
             k == FindFragment(name)
         IN  IF k = 0 THEN SpreadUsageLoop(h, acc, spreads, i + 1)
             ELSE SpreadUsageLoop(h,
                      SpreadUsageTypes(acc, name, getPossibleTypes(loadedFragments[k].onType), 1),
                      spreads, i + 1)

buildFragmentSpreadsUsage(h, spreads) == SpreadUsageLoop(h, EmptyUsage, spreads, 1)

----------------------------------------------------------------------------
\* _collectInlineFragments

\* an inline fragment as _collectInlineFragments reads it
InlineOf(h, id) == [cond |-> h[id].cond, sel |-> h[id].sel]

RECURSIVE InlinesOf(_, _, _)
InlinesOf(h, ids, i) ==
    IF i > Len(ids) THEN <<>> ELSE <<InlineOf(h, ids[i])>> \o InlinesOf(h, ids, i + 1)

\* node.typeCondition ? schema.getType(node.typeCondition.name.value) : parentType
TypeOnSchema(node, parent) == IF node.cond # "" THEN node.cond ELSE parent

Ok(types) == [err |-> NoErr, types |-> types]

\* the two appends every branch makes: the fields, then the spread usages of one type
AppendFieldsAndUsage(h, types, typeName, sep, usage) ==
    appendToTypeMap(appendToTypeMap(types, typeName, NodeItems(sep.fields)),
                    typeName, UsageItems(usage.toks[typeName]))

RECURSIVE collectInlineFragments(_, _, _, _)
RECURSIVE FanOutSameInterface(_, _, _, _, _, _, _)
RECURSIVE FanOutUnionInterface(_, _, _, _, _, _, _, _)

\* a fan-out that attaches to the first possible type only
FanOutSameInterface_FirstOnly(h, schemaType, pts, i, sep, usage, r) ==
    IF r.err # NoErr \/ i > Len(pts) THEN r
    ELSE collectInlineFragments(h, schemaType, InlinesOf(h, sep.inlines, 1),
            Ok(AppendFieldsAndUsage(h, r.types, pts[1], sep, usage)))

\* lines 93-97: a fragment repeating the parent interface, once per possible type
FanOutSameInterface(h, schemaType, pts, i, sep, usage, r) ==
    IF r.err # NoErr \/ i > Len(pts) THEN r
    ELSE FanOutSameInterface(h, schemaType, pts, i + 1, sep, usage,
            collectInlineFragments(h, schemaType, InlinesOf(h, sep.inlines, 1),
                Ok(AppendFieldsAndUsage(h, r.types, pts[i], sep, usage))))

\* a fan-out to the members that do not implement the interface
FanOutUnionInterface_Complement(h, schemaType, pts, ipts, i, sep, usage, r) ==
    IF r.err # NoErr \/ i > Len(pts) THEN r
    ELSE FanOutUnionInterface(h, schemaType, pts, ipts, i + 1, sep, usage,
            IF ~InSeq(pts[i], ipts)
            THEN collectInlineFragments(h, schemaType, InlinesOf(h, sep.inlines, 1),
                    Ok(AppendFieldsAndUsage(h, r.types, pts[i], sep, usage)))
            ELSE r)

\* lines 113-121: an interface fragment under a union parent
FanOutUnionInterface(h, schemaType, pts, ipts, i, sep, usage, r) ==
    IF r.err # NoErr \/ i > Len(pts) THEN r
    ELSE FanOutUnionInterface(h, schemaType, pts, ipts, i + 1, sep, usage,
            IF InSeq(pts[i], ipts)
            THEN collectInlineFragments(h, schemaType, InlinesOf(h, sep.inlines, 1),
                    Ok(AppendFieldsAndUsage(h, r.types, pts[i], sep, usage)))
            ELSE r)

\* lines 65-79: one node of the loop for an object parent
CollectUnderObject(h, parent, typeOnSchema, types, sep, usage) ==
        IF isObjectType(typeOnSchema) THEN
            collectInlineFragments(h, typeOnSchema, InlinesOf(h, sep.inlines, 1),
                Ok(AppendFieldsAndUsage(h, types, typeOnSchema, sep, usage)))
        ELSE IF isInterfaceType(typeOnSchema) THEN
            \* parentType.isTypeOf(typeOnSchema, null, null)
            IF cfg.isTypeOf = "undefined" THEN [err |-> NotAFunction, types |-> types]
            ELSE IF cfg.isTypeOf = "true" THEN
                collectInlineFragments(h, typeOnSchema, InlinesOf(h, sep.inlines, 1),
                    Ok(AppendFieldsAndUsage(h, types, parent, sep, usage)))
            ELSE Ok(types)
        ELSE Ok(types)

\* lines 83-99: one node of the loop for an interface parent
CollectUnderInterface(h, parent, schemaType, types, sep, usage) ==
    LET possibleTypes == getPossibleTypes(parent)
    IN  IF isObjectType(schemaType) /\ InSeq(schemaType, possibleTypes) THEN
            collectInlineFragments(h, schemaType, InlinesOf(h, sep.inlines, 1),
                Ok(AppendFieldsAndUsage(h, types, schemaType, sep, usage)))
        ELSE IF isInterfaceType(schemaType) /\ schemaType = parent THEN
            FanOutSameInterface(h, schemaType, possibleTypes, 1, sep, usage, Ok(types))
        ELSE Ok(types)

\* lines 103-123: one node of the loop for a union parent
CollectUnderUnion(h, parent, schemaType, types, sep, usage) ==
    LET possibleTypes == UnionMembers(parent)
    IN  IF isObjectType(schemaType) /\ InSeq(schemaType, possibleTypes) THEN
            collectInlineFragments(h, schemaType, InlinesOf(h, sep.inlines, 1),
                Ok(AppendFieldsAndUsage(h, types, schemaType, sep, usage)))
        ELSE IF isInterfaceType(schemaType) THEN
            FanOutUnionInterface(h, schemaType, possibleTypes, getPossibleTypes(schemaType),
                                 1, sep, usage, Ok(types))
        ELSE Ok(types)

\* the branch on the parent's kind, with the node's type condition resolved,
\* its selections separated and its spreads expanded (lines 66-68, 84-86, 104-106)
CollectResolved(h, parent, schemaType, types, sep, usage) ==
    IF isObjectType(parent) THEN CollectUnderObject(h, parent, schemaType, types, sep, usage)
    ELSE IF isInterfaceType(parent) THEN CollectUnderInterface(h, parent, schemaType, types, sep, usage)
    ELSE IF isUnionType(parent) THEN CollectUnderUnion(h, parent, schemaType, types, sep, usage)
    ELSE Ok(types)

CollectSeparatedNode(h, parent, node, types, sep) ==
    CollectResolved(h, parent, TypeOnSchema(node, parent), types, sep,
                    buildFragmentSpreadsUsage(h, sep.spreads))

CollectNode(h, parent, node, types) ==
    CollectSeparatedNode(h, parent, node, types, separateSelectionSet(h, node.sel))

\* the loop over nodes; r carries the map and a thrown error
collectInlineFragments(h, parent, nodes, r) ==
    IF r.err # NoErr \/ nodes = <<>> THEN r
    ELSE collectInlineFragments(h, parent, Tail(nodes),
                                CollectNode(h, parent, Head(nodes), r.types))

----------------------------------------------------------------------------
\* flattenSelectionSet

\* _createInlineFragmentForFieldNodes
createInlineFragmentForFieldNodes(parent, fieldNodes) == [cond |-> parent, sel |-> fieldNodes]

\* a forEach that stops after the first type name
AppendUsageKeys_First(types, usage, i) ==
    IF Len(usage.keys) = 0 THEN types
    ELSE appendToTypeMap(types, usage.keys[1], UsageItems(usage.toks[usage.keys[1]]))

RECURSIVE AppendUsageKeys(_, _, _)
\* Object.keys(fragmentsUsage).forEach(...)
AppendUsageKeys(types, usage, i) ==
    IF i > Len(usage.keys) THEN types
    ELSE AppendUsageKeys(
            appendToTypeMap(types, usage.keys[i], UsageItems(usage.toks[usage.keys[i]])),
            usage, i + 1)

\* lines 196-202, r being what _collectInlineFragments left or threw
AppendSpreads(h, r, spreads) ==
    IF r.err # NoErr THEN r
    ELSE Ok(AppendUsageKeys(r.types, buildFragmentSpreadsUsage(h, spreads), 1))

\* lines 191-195 on the separated selections
CollectSeparated(h, parent, sep) ==
    collectInlineFragments(h, parent,
        InlinesOf(h, sep.inlines, 1) \o
        (IF Len(sep.fields) > 0
         THEN <<createInlineFragmentForFieldNodes(parent, sep.fields)>> ELSE <<>>),
        Ok(EmptyTypes))

FlattenSeparated(h, parent, sep) ==
    AppendSpreads(h, CollectSeparated(h, parent, sep), sep.spreads)

flattenSelectionSet(h, parent, selections) ==
    FlattenSeparated(h, parent, separateSelectionSet(h, selections))

----------------------------------------------------------------------------
\* Generated text.  A text is a sequence of tokens; whitespace and line breaks
\* are not kept (so the re-indentation `.split('\n').join('\n  ')` of a nested
\* text changes nothing that is kept).  A token is a punctuation mark, a
\* fragment-usage name, or one piece a processor renders from a list of
\* entries (name, optional mark, type text).

Tok(kind) == [kind |-> kind, parent |-> "", entries |-> <<>>, tok |-> NoTok]
UsageTok(t) == [kind |-> "usage", parent |-> "", entries |-> <<>>, tok |-> t]
PieceTok(kind, parent, entries) ==
    [kind |-> kind, parent |-> parent, entries |-> entries, tok |-> NoTok]

\* name `?`-marked or not, and the text of its type
Entry(name, optional, tkind, base, text) ==
    [name |-> name, optional |-> optional, tkind |-> tkind, base |-> base, text |-> text]

RECURSIVE Join(_, _, _)
\* texts.join(sep), from the i-th text on
Join(texts, sep, i) ==
    IF i > Len(texts) THEN <<>>
    ELSE IF i = Len(texts) THEN texts[i]
    ELSE texts[i] \o <<sep>> \o Join(texts, sep, i + 1)

----------------------------------------------------------------------------
\* wrapTypeWithModifiers of the TypeScript documents visitor

\* `${namespacedImportName}.` or ''
TsPrefix(wc) == IF wc.namespaced THEN <<Tok("ns.")>> ELSE <<>>

\* str.startsWith(`${prefix}Maybe`)
TsStartsWithMaybe(str, wc) ==
    LET p == Len(TsPrefix(wc))
    IN  /\ Len(str) > p
        /\ SubSeq(str, 1, p) = TsPrefix(wc)
        /\ str[p + 1].kind = "Maybe"

\* str.replace(/^<prefix>Maybe<(.*?)>$/is, '$1')
TsReplaceMaybe(str, wc) ==
    LET p == Len(TsPrefix(wc))
    IN  IF /\ Len(str) >= p + 3
           /\ str[p + 2].kind = "<"
           /\ str[Len(str)].kind = ">"
        THEN SubSeq(str, p + 3, Len(str) - 1)
        ELSE str

\* a clearOptional that strips nothing
tsClearOptional_Kept(str, wc) == str

tsClearOptional(str, wc) ==
    IF TsStartsWithMaybe(str, wc) THEN TsReplaceMaybe(str, wc) ELSE str

\* `${prefix}Maybe<${baseType}>`
tsWrapNamed(baseType, wc) ==
    TsPrefix(wc) \o <<Tok("Maybe"), Tok("<")>> \o baseType \o <<Tok(">")>>

\* `${prefix}Maybe<${immutableTypes ? 'ReadonlyArray' : 'Array'}<${innerType}>>`
tsWrapList(innerType, wc) ==
    TsPrefix(wc) \o <<Tok("Maybe"), Tok("<")>>
      \o <<Tok(IF wc.immutableTypes THEN "ReadonlyArray" ELSE "Array"), Tok("<")>>
      \o innerType \o <<Tok(">"), Tok(">")>>

RECURSIVE tsWrapTypeWithModifiers(_, _, _)
\* mods: the wrappers of the schema type, outermost first
tsWrapTypeWithModifiers(baseType, mods, wc) ==
    IF mods # <<>> /\ Head(mods) = "NN" THEN
        tsClearOptional(tsWrapTypeWithModifiers(baseType, Tail(mods), wc), wc)
    ELSE IF mods # <<>> /\ Head(mods) = "L" THEN
        tsWrapList(tsWrapTypeWithModifiers(baseType, Tail(mods), wc), wc)
    ELSE tsWrapNamed(baseType, wc)

----------------------------------------------------------------------------
\* wrapTypeWithModifiers of the Flow documents visitor

flowClearOptional(str) ==
    IF Len(str) > 0 /\ str[1].kind = "?" THEN SubSeq(str, 2, Len(str)) ELSE str

\* `?${baseType}`
flowWrapNamed(baseType) == <<Tok("?")>> \o baseType

\* `?Array<${innerType}>`
flowWrapList(innerType) == <<Tok("?"), Tok("Array"), Tok("<")>> \o innerType \o <<Tok(">")>>

RECURSIVE flowWrapTypeWithModifiers(_, _)
flowWrapTypeWithModifiers(baseType, mods) ==
    IF mods # <<>> /\ Head(mods) = "NN" THEN
        flowClearOptional(flowWrapTypeWithModifiers(baseType, Tail(mods)))
    ELSE IF mods # <<>> /\ Head(mods) = "L" THEN
        flowWrapList(flowWrapTypeWithModifiers(baseType, Tail(mods)))
    ELSE flowWrapNamed(baseType)

----------------------------------------------------------------------------
\* utils: getFieldNodeNameValue, mergeSelectionSets, getBaseType

\* the response key: the alias if present, else the field name
getFieldNodeNameValue(n) == IF n.alias # "" THEN n.alias ELSE n.name

\* index in sel of the first field with response key `key`, 0 if none
FindFieldByKey(h, sel, key) ==
    IF \E j \in 1..Len(sel) : h[sel[j]].kind = "Field" /\ getFieldNodeNameValue(h[sel[j]]) = key
    THEN CHOOSE j \in 1..Len(sel) :
            /\ h[sel[j]].kind = "Field" /\ getFieldNodeNameValue(h[sel[j]]) = key
            /\ \A k \in 1..(j - 1) :
                 ~(h[sel[k]].kind = "Field" /\ getFieldNodeNameValue(h[sel[k]]) = key)
    ELSE 0

RECURSIVE mergeSelectionSets(_, _, _)
RECURSIVE MergeLoop(_, _, _)
\* st = [h, sel]: the heap and the new selections of the first set; sel2 is the
\* second set's selections as they were when the merge began
MergeLoop(st, sel2, i) ==
    IF i > Len(sel2) THEN st
    ELSE LET s2 == sel2[i]
             n2 == st.h[s2]
             m == FindFieldByKey(st.h, st.sel, getFieldNodeNameValue(n2))
         IN  IF n2.kind # "Field" \/ m = 0
             THEN MergeLoop([st EXCEPT !.sel = Append(@, s2)], sel2, i + 1)
             ELSE IF st.h[st.sel[m]].sel # <<>> /\ n2.sel # <<>>
             THEN MergeLoop([st EXCEPT !.h = mergeSelectionSets(st.h, st.sel[m], s2)],
                            sel2, i + 1)
             ELSE MergeLoop(st, sel2, i + 1)

\* selectionSet1.selections = newSelections
ReplaceSelections(st, id1) == [st.h EXCEPT ![id1].sel = st.sel]

\* the selection set of node id1 becomes the union of both; the heap is returned
mergeSelectionSets(h, id1, id2) ==
    ReplaceSelections(MergeLoop([h |-> h, sel |-> h[id1].sel], h[id2].sel, 1), id1)

\* the named type under the list and non-null wrappers
getBaseType(ft) == ft.base

----------------------------------------------------------------------------
\* The selection-set processor (the strategy rendering classified fields).
\* A result item is a text (isString) or a name-and-type pair.

StringItem(t) == [isString |-> TRUE, tok |-> t, nt |-> Entry("", FALSE, "", "", <<>>)]
PairItem(e) == [isString |-> FALSE, tok |-> Tok(""), nt |-> e]

transformTypenameField(type, nameEntry) ==
    IF cfg.preResolveTypes THEN <<PairItem(nameEntry)>>
    ELSE <<StringItem(PieceTok("typename", type, <<nameEntry>>))>>

RECURSIVE PrimitiveEntries(_, _, _)
PrimitiveEntries(t, names, i) ==
    IF i > Len(names) THEN <<>>
    ELSE <<Entry(names[i], FALSE, "field", t, <<>>)>> \o PrimitiveEntries(t, names, i + 1)

RECURSIVE AliasEntries(_, _, _)
AliasEntries(t, fs, i) ==
    IF i > Len(fs) THEN <<>>
    ELSE <<Entry(fs[i].alias, FALSE, "field", fs[i].fieldName, <<>>)>> \o AliasEntries(t, fs, i + 1)

RECURSIVE LinkEntries(_, _)
LinkEntries(ls, i) ==
    IF i > Len(ls) THEN <<>>
    ELSE <<Entry(IF ls[i].alias # "" THEN ls[i].alias ELSE ls[i].name, FALSE, "link",
                 ls[i].type, ls[i].selectionSet)>> \o LinkEntries(ls, i + 1)

RECURSIVE Pairs(_, _)
Pairs(es, i) == IF i > Len(es) THEN <<>> ELSE <<PairItem(es[i])>> \o Pairs(es, i + 1)

\* Pick<Parent, 'a' | 'b'>, or one pair per field
transformPrimitiveFields(t, names) ==
    IF Len(names) = 0 THEN <<>>
    ELSE IF cfg.preResolveTypes THEN Pairs(PrimitiveEntries(t, names, 1), 1)
    ELSE <<StringItem(PieceTok("pick", t, PrimitiveEntries(t, names, 1)))>>

\* { alias: Parent['field'] }, or one pair per field
transformAliasesPrimitiveFields(t, fs) ==
    IF Len(fs) = 0 THEN <<>>
    ELSE IF cfg.preResolveTypes THEN Pairs(AliasEntries(t, fs, 1), 1)
    ELSE <<StringItem(PieceTok("aliases", t, AliasEntries(t, fs, 1)))>>

\* { key: <nested text> }, or one pair per link field
transformLinkFields(ls) ==
    IF Len(ls) = 0 THEN <<>>
    ELSE IF cfg.preResolveTypes THEN Pairs(LinkEntries(ls, 1), 1)
    ELSE <<StringItem(PieceTok("links", "", LinkEntries(ls, 1)))>>

----------------------------------------------------------------------------
\* buildTypeNameField

\* a decision whose `?` mark ignores nonOptionalTypename
buildTypeNameField_QueriedOnly(type, nonOptionalTypename, addTypename, queriedForTypename) ==
    IF nonOptionalTypename \/ addTypename \/ queriedForTypename THEN
        [present |-> TRUE,
         entry |-> [name |-> "__typename", optional |-> ~queriedForTypename,
                    tkind |-> "literal", base |-> type, text |-> <<>>]]
    ELSE [present |-> FALSE,
          entry |-> [name |-> "", optional |-> FALSE, tkind |-> "", base |-> "", text |-> <<>>]]

\* null (present = FALSE), or the name (with its `?` mark) and the literal type
buildTypeNameField(type, nonOptionalTypename, addTypename, queriedForTypename) ==
    IF nonOptionalTypename \/ addTypename \/ queriedForTypename THEN
        LET optionalTypename == ~queriedForTypename /\ ~nonOptionalTypename
        IN  [present |-> TRUE,
             entry |-> Entry("__typename", optionalTypename, "literal", type, <<>>)]
    ELSE [present |-> FALSE, entry |-> Entry("", FALSE, "", "", <<>>)]

----------------------------------------------------------------------------
\* buildSelectionSetString

\* a JavaScript Map kept as a sequence of [key, val] in insertion order
MapHas(m, key) == \E i \in 1..Len(m) : m[i].key = key
MapGet(m, key) == m[CHOOSE i \in 1..Len(m) : m[i].key = key].val
MapSet(m, key, val) ==
    IF MapHas(m, key)
    THEN [i \in 1..Len(m) |-> IF m[i].key = key THEN [key |-> key, val |-> val] ELSE m[i]]
    ELSE Append(m, [key |-> key, val |-> val])

\* the state of the classification loop (lines 252-262)
ClassifyInit(h) ==
    [h |-> h, primitiveFields |-> <<>>, primitiveAliasFields |-> <<>>,
     linkFieldSelectionSets |-> <<>>, requireTypename |-> FALSE,
     fragmentsSpreadUsages |-> <<>>, err |-> NoErr]

\* lines 277-300: a field with a selection set
LinkFieldStep(st, parentSchemaType, id) ==
    LET n == st.h[id]
        fields == getFields(parentSchemaType)
        isMeta == isMetadataFieldName(n.name)
        found == isMeta \/ n.name \in DOMAIN fields
        selectedField == IF isMeta THEN metadataFieldMap[n.name] ELSE fields[n.name]
        fieldName == getFieldNodeNameValue(n)
    IN  IF ~found THEN [st EXCEPT !.err = CouldNotFind(parentSchemaType, n.name)]
        ELSE IF ~MapHas(st.linkFieldSelectionSets, fieldName) THEN
            [st EXCEPT !.linkFieldSelectionSets =
                MapSet(@, fieldName, [selectedFieldType |-> selectedField, field |-> id])]
        ELSE
            [st EXCEPT !.h = mergeSelectionSets(
                st.h, MapGet(st.linkFieldSelectionSets, fieldName).field, id)]

\* lines 265-302: one selection node of the loop
ClassifyStep(st, parentSchemaType, item) ==
    IF item.tag = "usage" THEN
        [st EXCEPT !.fragmentsSpreadUsages = Append(@, item.tok)]
    ELSE LET n == st.h[item.id]
         IN  IF n.kind # "Field" THEN st
             ELSE IF n.sel = <<>> THEN
                 IF n.alias # "" THEN
                     [st EXCEPT !.primitiveAliasFields = MapSet(@, n.alias, item.id)]
                 ELSE IF n.name = "__typename" THEN [st EXCEPT !.requireTypename = TRUE]
                 ELSE [st EXCEPT !.primitiveFields = MapSet(@, n.name, item.id)]
             ELSE LinkFieldStep(st, parentSchemaType, item.id)

RECURSIVE ClassifyLoop(_, _, _, _)
ClassifyLoop(st, parentSchemaType, items, i) ==
    IF st.err # NoErr \/ i > Len(items) THEN st
    ELSE ClassifyLoop(ClassifyStep(st, parentSchemaType, items[i]), parentSchemaType, items, i + 1)

\* this._processor.config.wrapTypeWithModifiers
processorWrap(text, ft) ==
    IF cfg.flow THEN flowWrapTypeWithModifiers(text, ft.mods)
    ELSE tsWrapTypeWithModifiers(text, ft.mods, [immutableTypes |-> FALSE, namespaced |-> FALSE])

RECURSIVE FieldNames(_, _, _)
\* Array.from(primitiveFields.values()).map(field => field.name.value)
FieldNames(h, m, i) ==
    IF i > Len(m) THEN <<>> ELSE <<h[m[i].val].name>> \o FieldNames(h, m, i + 1)

RECURSIVE AliasPairs(_, _, _)
\* ...map(field => ({ alias: field.alias.value, fieldName: field.name.value }))
AliasPairs(h, m, i) ==
    IF i > Len(m) THEN <<>>
    ELSE <<[alias |-> h[m[i].val].alias, fieldName |-> h[m[i].val].name]>> \o AliasPairs(h, m, i + 1)

RECURSIVE SelectStrings(_, _)
\* transformed.filter(t => typeof t === 'string')
SelectStrings(items, i) ==
    IF i > Len(items) THEN <<>>
    ELSE (IF items[i].isString THEN <<items[i].tok>> ELSE <<>>) \o SelectStrings(items, i + 1)

RECURSIVE SelectPairs(_, _)
\* transformed.filter(t => typeof t !== 'string')
SelectPairs(items, i) ==
    IF i > Len(items) THEN <<>>
    ELSE (IF items[i].isString THEN <<>> ELSE <<items[i].nt>>) \o SelectPairs(items, i + 1)

RECURSIVE Singletons(_, _)
\* each token as a text of its own
Singletons(toks, i) ==
    IF i > Len(toks) THEN <<>> ELSE <<(<<toks[i]>>)>> \o Singletons(toks, i + 1)

RECURSIVE UsageToks(_, _)
UsageToks(us, i) == IF i > Len(us) THEN <<>> ELSE <<UsageTok(us[i])>> \o UsageToks(us, i + 1)

\* lines 340-348: null (the empty text), the only operand, or the intersection
ComposeFields(fields) ==
    IF Len(fields) = 0 THEN <<>>
    ELSE IF Len(fields) = 1 THEN <<fields[1]>>
    ELSE <<Tok("(")>> \o Join(Singletons(fields, 1), Tok("&"), 1) \o <<Tok(")")>>

\* lines 324-348, given the classified fields and the rendered link fields
ComposeSelectionSetString(st, parentSchemaType, linkFields) ==
    LET typeInfoField == buildTypeNameField(parentSchemaType, cfg.nonOptionalTypename,
                                            cfg.addTypename, st.requireTypename)
        transformed ==
            (IF typeInfoField.present
             THEN transformTypenameField(parentSchemaType, typeInfoField.entry) ELSE <<>>)
            \o transformPrimitiveFields(parentSchemaType, FieldNames(st.h, st.primitiveFields, 1))
            \o transformAliasesPrimitiveFields(parentSchemaType,
                                               AliasPairs(st.h, st.primitiveAliasFields, 1))
            \o transformLinkFields(linkFields)
        allStrings == SelectStrings(transformed, 1)
        allObjectsMerged == SelectPairs(transformed, 1)
        mergedObjectsAsString ==
            IF Len(allObjectsMerged) > 0
            THEN <<PieceTok("object", "", allObjectsMerged)>> ELSE <<>>
    IN  ComposeFields(allStrings \o mergedObjectsAsString
                      \o UsageToks(st.fragmentsSpreadUsages, 1))

\* a join with the intersection operator
JoinGrouped_Intersect(texts) == Join(texts, Tok("&"), 1)

\* lines 372-385: the branches joined
JoinGrouped(texts) == Join(texts, Tok("|"), 1)

RECURSIVE RelevantTexts(_, _)
\* per type: null, the only set, or ( a & b ); nulls filtered out
RelevantTexts(g, i) ==
    IF i > Len(g) THEN <<>>
    ELSE LET relevant == SelectSeq(g[i].sets, LAMBDA t : t # <<>>)
         IN  (IF Len(relevant) = 0 THEN <<>>
              ELSE IF Len(relevant) = 1 THEN <<relevant[1]>>
              ELSE << <<Tok("(")>> \o Join(relevant, Tok("&"), 1) \o <<Tok(")")>> >>)
             \o RelevantTexts(g, i + 1)

ComposeGrouped(g) == JoinGrouped(RelevantTexts(g, 1))

\* prev[typeName] = prev[typeName] || []; push the set when it is not null
GroupedPush(g, typeName, transformedSet) ==
    LET has == \E i \in 1..Len(g) : g[i].typeName = typeName
        g1 == IF has THEN g ELSE Append(g, [typeName |-> typeName, sets |-> <<>>])
    IN  IF transformedSet = <<>> THEN g1
        ELSE [i \in 1..Len(g1) |->
                IF g1[i].typeName = typeName
                THEN [g1[i] EXCEPT !.sets = Append(@, transformedSet)] ELSE g1[i]]

RECURSIVE transformSelectionSetOf(_, _, _)
RECURSIVE LinkLoop(_, _, _)
RECURSIVE GroupLoop(_, _, _, _)

\* linkFields.push({alias, name, type, selectionSet: wrapTypeWithModifiers(...)}),
\* child being what the nested transformSelectionSet returned or threw
PushLinkField(r, n, selectedFieldType, child) ==
    [err |-> child.err, h |-> child.h,
     linkFields |-> Append(r.linkFields,
         [alias |-> n.alias, name |-> n.name, type |-> getBaseType(selectedFieldType),
          selectionSet |-> processorWrap(child.text, selectedFieldType)])]

\* lines 305-322: r = [err, h, linkFields]
LinkLoop(r, links, i) ==
    IF r.err # NoErr \/ i > Len(links) THEN r
    ELSE LinkLoop(
            PushLinkField(r, r.h[links[i].val.field], links[i].val.selectedFieldType,
                transformSelectionSetOf(r.h, getBaseType(links[i].val.selectedFieldType),
                                        r.h[links[i].val.field].sel)),
            links, i + 1)

\* lines 324-348 once the link fields are rendered (r) for the classified fields (st)
FinishSelectionSetString(st, parentSchemaType, r) ==
    IF r.err # NoErr THEN [err |-> r.err, h |-> r.h, text |-> <<>>]
    ELSE [err |-> NoErr, h |-> r.h,
          text |-> ComposeSelectionSetString([st EXCEPT !.h = r.h],
                                             parentSchemaType, r.linkFields)]

\* lines 305-348 for the classified fields st
RenderClassified(st, parentSchemaType) ==
    IF st.err # NoErr THEN [err |-> st.err, h |-> st.h, text |-> <<>>]
    ELSE FinishSelectionSetString(st, parentSchemaType,
            LinkLoop([err |-> NoErr, h |-> st.h, linkFields |-> <<>>],
                     st.linkFieldSelectionSets, 1))

\* the whole of buildSelectionSetString: [err, h, text]; text = <<>> is null
buildSelectionSetString(h, parentSchemaType, selectionNodes) ==
    RenderClassified(ClassifyLoop(ClassifyInit(h), parentSchemaType, selectionNodes, 1),
                     parentSchemaType)

\* lines 233-243: b is what buildSelectionSetString returned or threw
GroupStep(r, typeName, b) ==
    [err |-> b.err, h |-> b.h,
     grouped |-> IF b.err # NoErr THEN r.grouped ELSE GroupedPush(r.grouped, typeName, b.text)]

\* the reduce of _buildGroupedSelections over the possible types: r = [err, h, grouped]
GroupLoop(r, types, pts, i) ==
    IF r.err # NoErr \/ i > Len(pts) THEN r
    ELSE GroupLoop(GroupStep(r, pts[i],
                             buildSelectionSetString(r.h, pts[i], types.items[pts[i]])),
                   types, pts, i + 1)

\* lines 222-248: the reduce, given what flattenSelectionSet returned or threw
GroupFlattened(h, parent, f) ==
    IF f.err # NoErr THEN [err |-> f.err, h |-> h, grouped |-> <<>>]
    ELSE GroupLoop([err |-> NoErr, h |-> h, grouped |-> <<>>],
                   f.types, getPossibleTypes(parent), 1)

\* _buildGroupedSelections
buildGroupedSelections(h, parent, selections) ==
    IF Len(selections) = 0 THEN [err |-> NoErr, h |-> h, grouped |-> <<>>]
    ELSE GroupFlattened(h, parent, flattenSelectionSet(h, parent, selections))

\* lines 372-385 on the grouped selections g
JoinBranches(g) ==
    [err |-> g.err, h |-> g.h,
     text |-> IF g.err # NoErr THEN <<>> ELSE ComposeGrouped(g.grouped)]

\* createNext(parent, selectionSet).transformSelectionSet(): [err, h, text]
transformSelectionSetOf(h, parent, selections) ==
    JoinBranches(buildGroupedSelections(h, parent, selections))

----------------------------------------------------------------------------
\* transformFragmentSelectionSetToTypes.  A declaration is kept as the name
\* given to withName and the content given to withContent.

Declaration(name, content) == [name |-> name, content |-> content]

RECURSIVE SubTypes(_, _, _, _)
\* lines 391-403: per type with a non-null set, the suffixed name and the sets
\* joined with the intersection operator
SubTypes(g, name, suffix, i) ==
    IF i > Len(g) THEN <<>>
    ELSE LET possibleFields == SelectSeq(g[i].sets, LAMBDA t : t # <<>>)
         IN  (IF Len(possibleFields) = 0 THEN <<>>
              ELSE <<Declaration(buildFragmentTypeName(name, suffix, g[i].typeName),
                                 Join(possibleFields, Tok("&"), 1))>>)
             \o SubTypes(g, name, suffix, i + 1)

RECURSIVE SubTypeNames(_, _)
\* subTypes.map(t => t.name), each name a text of its own
SubTypeNames(subTypes, i) ==
    IF i > Len(subTypes) THEN <<>>
    ELSE <<(<<UsageTok(subTypes[i].name)>>)>> \o SubTypeNames(subTypes, i + 1)

\* lines 405-427: the one declaration under the unsuffixed name, or the
\* sub-type declarations followed by the union of their names
DeclareSubTypes(subTypes, name, suffix) ==
    IF Len(subTypes) = 1
    THEN <<Declaration(buildFragmentTypeName(name, suffix, ""), subTypes[1].content)>>
    ELSE subTypes \o
         <<Declaration(buildFragmentTypeName(name, suffix, ""),
                       Join(SubTypeNames(subTypes, 1), Tok("|"), 1))>>

\* the declarations for the grouped selections g of the fragment's selection set
transformFragmentSelectionSetToTypes(g, name, suffix) ==
    DeclareSubTypes(SubTypes(g, name, suffix, 1), name, suffix)

----------------------------------------------------------------------------
\* The depth of the recursion.  Two functions call themselves:
\* _collectInlineFragments on the inline fragments of a node's selection set
\* (lines 73, 77, 91, 96, 111, 119), and transformSelectionSet, through
\* createNext, on the selection set of a link field (lines 308-316).
\* buildFragmentSpreadsUsage reads the name and the type condition of a loaded
\* fragment and calls neither.

Max(S) == CHOOSE x \in S : \A y \in S : y <= x

RECURSIVE CollectFrames(_, _)
\* the activations of _collectInlineFragments nested in a call on the inline
\* fragments `ids`: the call, and under it the deepest call on the inline
\* fragments of a node's own selection set (made also when there are none)
CollectFrames(h, ids) ==
    1 + Max({0} \cup { CollectFrames(h, FilterKind(h, h[ids[i]].sel, "InlineFragment", 1)) :
                         i \in 1..Len(ids) })

\* line 195: the call on the selection's inline fragments and the synthetic
\* fragment of its fields, whose own selection set has no inline fragment
FlattenFrames(h, selections) ==
    Max({ CollectFrames(h, FilterKind(h, selections, "InlineFragment", 1)),
          IF FilterKind(h, selections, "Field", 1) # <<>> THEN 2 ELSE 1 })

RECURSIVE LinkNodes(_, _)
\* the fields with a selection set that flattening a selection can attach to
\* a type: those of the selection and of its inline fragments
LinkNodes(h, ids) ==
    { ids[i] : i \in { j \in 1..Len(ids) : h[ids[j]].kind = "Field" /\ h[ids[j]].sel # <<>> } }
    \cup UNION { LinkNodes(h, h[ids[i]].sel) :
                   i \in { j \in 1..Len(ids) : h[ids[j]].kind = "InlineFragment" } }

RECURSIVE TransformFrames(_, _)
\* the activations of the two functions nested in transformSelectionSet on a
\* selection: itself, then the deeper of flattening and of the nested
\* transformSelectionSet of a link field
TransformFrames(h, selections) ==
    IF selections = <<>> THEN 1
    ELSE 1 + Max({FlattenFrames(h, selections)}
                 \cup { TransformFrames(h, h[n].sel) : n \in LinkNodes(h, selections) })

----------------------------------------------------------------------------
\* Federation: field-set strings.  A string is a sequence of symbols: a
\* whitespace character, a brace, or a piece of a name; a name is the sequence
\* of the symbols between two runs of whitespace.

IsWhitespace(c) == c \in {" "}
IsBrace(c) == c \in {"{", "}"}

RECURSIVE SkipWhitespace(_, _)
\* the index after the run of whitespace that begins at i
SkipWhitespace(s, i) ==
    IF i <= Len(s) /\ IsWhitespace(s[i]) THEN SkipWhitespace(s, i + 1) ELSE i

RECURSIVE SplitWhitespace(_, _, _)
\* value.split(/\s+/g): cur is the piece being read from index i on
SplitWhitespace(s, i, cur) ==
    IF i > Len(s) THEN <<cur>>
    ELSE IF IsWhitespace(s[i]) THEN <<cur>> \o SplitWhitespace(s, SkipWhitespace(s, i), <<>>)
    ELSE SplitWhitespace(s, i + 1, Append(cur, s[i]))

RECURSIVE DedupFrom(_, _)
\* items.filter((item, i) => items.indexOf(item) === i)
DedupFrom(items, i) ==
    IF i > Len(items) THEN <<>>
    ELSE (IF \E j \in 1..(i - 1) : items[j] = items[i] THEN <<>> ELSE <<items[i]>>)
         \o DedupFrom(items, i + 1)

deduplicate(items) == DedupFrom(items, 1)

\* /[\{\}]+/gi.test(value)
HasBraces(value) == \E i \in 1..Len(value) : IsBrace(value[i])

\* a directive node: its name and the value of its `fields` argument
Directive(name, fields) == [name |-> name, fields |-> fields]

\* extractFieldSet: the names, or the error 'Nested fields in _FieldSet is not supported'
extractFieldSet(directive) ==
    IF HasBraces(directive.fields) THEN [err |-> "Nested fields", names |-> <<>>]
    ELSE [err |-> "", names |-> deduplicate(SplitWhitespace(directive.fields, 1, <<>>))]

RECURSIVE DirectivesNamed(_, _, _)
DirectivesNamed(name, ds, i) ==
    IF i > Len(ds) THEN <<>>
    ELSE (IF ds[i].name = name THEN <<ds[i]>> ELSE <<>>) \o DirectivesNamed(name, ds, i + 1)

\* getDirectivesByName(name, node)
getDirectivesByName(name, node) == DirectivesNamed(name, node.directives, 1)

RECURSIVE ExtractAll(_, _)
\* directives.map(this.extractFieldSet).reduce((prev, curr) => [...prev, ...curr], [])
ExtractAll(ds, i) ==
    IF i > Len(ds) THEN [err |-> "", names |-> <<>>]
    ELSE LET a == extractFieldSet(ds[i])
             b == ExtractAll(ds, i + 1)
         IN  IF a.err # "" THEN a
             ELSE IF b.err # "" THEN b
             ELSE [err |-> "", names |-> a.names \o b.names]

\* the text of a parent-type signature, as tokens
FTok(kind) == [kind |-> kind, names |-> <<>>]
SigTok == FTok("sig")

\* translateFieldSet: Pick<parentTypeRef, 'a' | 'b'>; the names are what is kept
translateFieldSet(names) == [kind |-> "Pick", names |-> names]

\* name.startsWith('__'), on the type names of the model
StartsWithUnderscores(name) == name \in {"__Meta"}

\* isFederationObjectType
isFederationObjectType(node) ==
    LET isNotRoot == node.name \notin {"Query", "Mutation", "Subscription"}
        isNotIntrospection == ~StartsWithUnderscores(node.name)
        hasKeyDirective == \E i \in 1..Len(node.directives) : node.directives[i].name = "key"
    IN  isNotRoot /\ isNotIntrospection /\ hasKeyDirective

\* the names in parentType.getFields()
FedFieldsOf(typeName) == { <<"id">>, <<"name">> }

\* results of the translator's operations
FedType(name, kind, directives) == [name |-> name, kind |-> kind, directives |-> directives]
FedField(name, directives) == [name |-> name, directives |-> directives]
NoType == FedType("", "", <<>>)
NoField == FedField(<<>>, <<>>)
FedCall(op, objectType, fieldNode, arg) ==
    [op |-> op, parent |-> objectType, field |-> fieldNode, arg |-> arg]
NoCall == FedCall("", NoType, NoField, <<>>)
NoResult == [err |-> "", bool |-> FALSE, text |-> <<>>]
BoolResult(b) == [err |-> "", bool |-> b, text |-> <<>>]
TextResult(t) == [err |-> "", bool |-> FALSE, text |-> t]
ErrResult(e) == [err |-> e, bool |-> FALSE, text |-> <<>>]

RECURSIVE KeyPicks(_, _)
\* keys.map(def => translateFieldSet(extractFieldSet(def)...)): r = [err, picks]
KeyPicks(keys, i) ==
    IF i > Len(keys) THEN [err |-> "", picks |-> <<>>]
    ELSE LET a == extractFieldSet(keys[i])
             b == KeyPicks(keys, i + 1)
         IN  IF a.err # "" THEN [err |-> a.err, picks |-> <<>>]
             ELSE IF b.err # "" THEN b
             ELSE [err |-> "", picks |-> <<(<<translateFieldSet(a.names)>>)>> \o b.picks]

\* lines 225-234, with the requires names and the key projections computed
JoinOutputs(requires, primaryKeys) ==
    (IF Len(primaryKeys) > 1 THEN <<FTok("(")>> ELSE <<>>)
    \o Join(primaryKeys, FTok("|"), 1)
    \o (IF Len(primaryKeys) > 1 THEN <<FTok(")")>> ELSE <<>>)
    \o (IF Len(requires) > 0 THEN <<FTok("&"), translateFieldSet(requires)>> ELSE <<>>)

\* lines 207-235 once the requires directives are read
TranslateKeys(objectType, keys, req) ==
    IF req.err # "" THEN ErrResult(req.err)
    ELSE IF \E i \in 1..Len(req.names) : req.names[i] \notin FedFieldsOf(objectType.name)
    THEN ErrResult("TypeError")   \* parentType.getFields()[name] is undefined
    ELSE LET pk == KeyPicks(keys, 1)
         IN  IF pk.err # "" THEN ErrResult(pk.err)
             ELSE TextResult(JoinOutputs(req.names, pk.picks))

\* translateParentType({fieldNode, parentType, parentTypeSignature})
translateParentType(enabled, fieldNode, objectType) ==
    IF /\ enabled /\ objectType.kind = "object" /\ isFederationObjectType(objectType)
       /\ fieldNode.name = <<"__resolveReference">>
       /\ Len(getDirectivesByName("key", objectType)) > 0
    THEN TranslateKeys(objectType, getDirectivesByName("key", objectType),
                       ExtractAll(getDirectivesByName("requires", fieldNode), 1))
    ELSE TextResult(<<SigTok>>)

\* isExternal
isExternal(node) == Len(getDirectivesByName("external", node)) > 0

\* a hasProvides that never finds the field
hasProvides_Never(pm, objectType, node) == FALSE

\* hasProvides: pm is the provides map, a sequence of [key, val]
hasProvides(pm, objectType, node) ==
    IF \E i \in 1..Len(pm) : pm[i].key = objectType.name /\ Len(pm[i].val) > 0
    THEN \E i \in 1..Len(pm) :
            pm[i].key = objectType.name /\ \E j \in 1..Len(pm[i].val) : pm[i].val[j] = node.name
    ELSE FALSE

isExternalAndNotProvided(pm, fieldNode, objectType) ==
    isExternal(fieldNode) /\ ~hasProvides(pm, objectType, fieldNode)

\* skipField({fieldNode, parentType})
skipField(enabled, pm, fieldNode, objectType) ==
    IF ~enabled \/ objectType.kind # "object" \/ ~isFederationObjectType(objectType)
    THEN FALSE
    ELSE isExternalAndNotProvided(pm, fieldNode, objectType)

\* providesMap[ofType.name] = providesMap[ofType.name] || []; push(...provides)
ProvidesPush(pm, typeName, names) ==
    IF \E i \in 1..Len(pm) : pm[i].key = typeName
    THEN [i \in 1..Len(pm) |->
            IF pm[i].key = typeName THEN [key |-> typeName, val |-> pm[i].val \o names]
            ELSE pm[i]]
    ELSE Append(pm, [key |-> typeName, val |-> names])

RECURSIVE ProvidesLoop(_, _, _)
\* createMapOfProvides over the fields of the schema's object types: r = [err, pm]
ProvidesLoop(r, decls, i) ==
    IF r.err # "" \/ i > Len(decls) THEN r
    ELSE IF decls[i].ownerKind # "object" THEN ProvidesLoop(r, decls, i + 1)
    ELSE LET provides == ExtractAll(getDirectivesByName("provides", decls[i]), 1)
         IN  ProvidesLoop(
                 IF provides.err # "" THEN [err |-> provides.err, pm |-> r.pm]
                 ELSE [err |-> "", pm |-> ProvidesPush(r.pm, decls[i].base, provides.names)],
                 decls, i + 1)

createMapOfProvides(schema) == ProvidesLoop([err |-> "", pm |-> <<>>], schema, 1)

\* filterTypeNames / filterFieldNames
filterTypeNames(enabled, typeNames) ==
    IF enabled THEN SelectSeq(typeNames, LAMBDA t : t # "_FieldSet") ELSE typeNames

filterFieldNames(enabled, fieldNames) ==
    IF enabled THEN SelectSeq(fieldNames, LAMBDA t : t # <<"__resolveReference">>) ELSE fieldNames

skipDirective(enabled, name) == enabled /\ name \in {"external", "requires", "provides", "key"}

skipScalar(enabled, name) == enabled /\ name = "_FieldSet"

----------------------------------------------------------------------------
\* The inputs of the selection-set transformation

\* the parent types a top-level selection is transformed against
Parents == {"Node", "Dog", "Thing"}

\* top-level selections, each with the parents under which it is a valid
\* selection of the schema above
Item(tree, validOn) == [tree |-> tree, validOn |-> validOn]

Pool ==
    { Item(Field("id"), {"Node", "Dog"}),
      Item(Field("__typename"), {"Node", "Dog", "Thing"}),
      Item(Inline("Dog", <<Field("id")>>), {"Node", "Dog", "Thing"}),
      Item(Inline("Dog", <<Aliased("id", "id")>>), {"Node", "Dog", "Thing"}),
      Item(Link("friend", <<Field("name")>>), {"Node", "Dog"}),
      Item(AliasedLink("friend", "friend", <<Field("id"), Spread("F")>>), {"Node", "Dog"}),
      Item(Link("pals", <<Field("id")>>), {"Node", "Dog"}),
      Item(Inline("Dog", <<Field("bark"), Link("friend", <<Field("id"), Spread("G")>>)>>),
           {"Node", "Dog", "Thing"}),
      Item(Inline("Cat", <<Field("meow")>>), {"Node"}),
      Item(Inline("Node", <<Field("name"), Inline("Dog", <<Field("bark")>>)>>),
           {"Node", "Dog", "Thing"}),
      Item(Inline("", <<Field("name")>>), {"Node", "Dog"}),
      Item(Inline("Node", <<Link("friend", <<Field("name")>>)>>), {"Node", "Dog", "Thing"}),
      Item(Inline("Person", <<Field("name"), Link("pet", <<Field("__typename")>>)>>), {"Thing"}),
      Item(Spread("F"), {"Node", "Dog", "Thing"}),
      Item(Spread("G"), {"Node", "Dog", "Thing"}),
      Item(Spread("PetFragment"), {"Node", "Dog", "Thing"}),
      Item(Spread("Unknown"), {}),
      Item(Link("__type", <<Field("name")>>), {}),
      Item(Link("ghost", <<Field("id")>>), {}),
      Item(Field("gone"), {}) }

Docs == UNION {[1..n -> Pool] : n \in 0..MaxSel}

RECURSIVE Trees(_, _)
Trees(doc, i) == IF i > Len(doc) THEN <<>> ELSE <<doc[i].tree>> \o Trees(doc, i + 1)

\* this._config (nonOptionalTypename, addTypename, dedupeOperationSuffix), the
\* processor and wrapper the visitor installed, and what the schema's object
\* types have as isTypeOf
Config(nonOpt, add, dedupe, pre, flow, isTypeOf) ==
    [nonOptionalTypename |-> nonOpt, addTypename |-> add, dedupeOperationSuffix |-> dedupe,
     preResolveTypes |-> pre, flow |-> flow, isTypeOf |-> isTypeOf]

Configs ==
    { Config(FALSE, FALSE, FALSE, FALSE, FALSE, "undefined"),
      Config(FALSE, TRUE, FALSE, TRUE, TRUE, "true"),
      Config(TRUE, FALSE, TRUE, FALSE, FALSE, "false"),
      Config(TRUE, TRUE, TRUE, TRUE, TRUE, "undefined") }

----------------------------------------------------------------------------
\* The selection-set transformation as a state machine:
\*   transformSelectionSet = _buildGroupedSelections (flattenSelectionSet, then
\*   buildSelectionSetString once per possible type), then the join.

SelIdle ==
    /\ document = <<>> /\ heap = <<>> /\ rootSel = <<>> /\ parentType = "" /\ pc = "idle"
    /\ cfg = Config(FALSE, FALSE, FALSE, FALSE, FALSE, "undefined")
    /\ typeMap = EmptyTypes /\ grouped = <<>> /\ out = <<>> /\ err = NoErr
    /\ docValid = FALSE
    /\ fragmentName = "" /\ suffixArg = "" /\ declarations = <<>>

WrapIdle ==
    /\ wType = <<>> /\ wBase = <<>> /\ wCfg = [immutableTypes |-> FALSE, namespaced |-> FALSE]
    /\ wDone = 0 /\ wStarted = FALSE /\ tsText = <<>> /\ flowText = <<>>

FedIdle ==
    /\ fedEnabled = FALSE /\ fedSchema = <<>> /\ fedPc = "idle" /\ providesMap = <<>>
    /\ fedCall = NoCall /\ fedResult = NoResult

Init ==
    /\ \E doc \in Docs, p \in Parents, c \in Configs :
         LET a == AllocSeq(<<>>, Trees(doc, 1))
         IN  /\ document = a.h
             /\ heap = a.h
             /\ rootSel = a.ids
             /\ parentType = p
             /\ cfg = c
             /\ docValid = \A i \in 1..Len(doc) : p \in doc[i].validOn
    /\ pc = "start"
    /\ typeMap = EmptyTypes
    /\ grouped = <<>>
    /\ out = <<>>
    /\ err = NoErr
    /\ fragmentName = "" /\ suffixArg = "" /\ declarations = <<>>
    /\ WrapIdle
    /\ FedIdle

FlattenReturns(f) == f.err = NoErr /\ typeMap' = f.types
FlattenFails(f) == f.err # NoErr /\ err' = f.err

\* the possible type the reduce is at
NextType == getPossibleTypes(parentType)[Len(grouped) + 1]

BuildReturns(t, b) ==
    /\ b.err = NoErr
    /\ heap' = b.h
    /\ grouped' = GroupedPush(grouped, t, b.text)

BuildFails(b) ==
    /\ b.err # NoErr
    /\ heap' = b.h
    /\ err' = b.err

\* _buildGroupedSelections on an empty selection set: {}
EmptySelection ==
    /\ pc = "start"
    /\ Len(rootSel) = 0
    /\ pc' = "compose"
    /\ UNCHANGED <<document, heap, rootSel, parentType, cfg, typeMap, grouped, out, err, docValid>>
    /\ UNCHANGED <<wrapVars, fedVars, fragVars>>

\* flattenSelectionSet returns the map
Flatten ==
    /\ pc = "start"
    /\ Len(rootSel) > 0
    /\ FlattenReturns(flattenSelectionSet(heap, parentType, rootSel))
    /\ pc' = "grouping"
    /\ UNCHANGED <<document, heap, rootSel, parentType, cfg, grouped, out, err, docValid>>
    /\ UNCHANGED <<wrapVars, fedVars, fragVars>>

\* flattenSelectionSet throws
FlattenThrows ==
    /\ pc = "start"
    /\ Len(rootSel) > 0
    /\ FlattenFails(flattenSelectionSet(heap, parentType, rootSel))
    /\ pc' = "failed"
    /\ UNCHANGED <<document, heap, rootSel, parentType, cfg, typeMap, grouped, out, docValid>>
    /\ UNCHANGED <<wrapVars, fedVars, fragVars>>

\* one step of the reduce over the possible types: buildSelectionSetString
BuildType ==
    /\ pc = "grouping"
    /\ Len(grouped) < Len(getPossibleTypes(parentType))
    /\ BuildReturns(NextType, buildSelectionSetString(heap, NextType, typeMap.items[NextType]))
    /\ UNCHANGED <<document, rootSel, parentType, cfg, pc, typeMap, out, err, docValid>>
    /\ UNCHANGED <<wrapVars, fedVars, fragVars>>

\* buildSelectionSetString throws
BuildTypeThrows ==
    /\ pc = "grouping"
    /\ Len(grouped) < Len(getPossibleTypes(parentType))
    /\ BuildFails(buildSelectionSetString(heap, NextType, typeMap.items[NextType]))
    /\ pc' = "failed"
    /\ UNCHANGED <<document, rootSel, parentType, cfg, typeMap, grouped, out, docValid>>
    /\ UNCHANGED <<wrapVars, fedVars, fragVars>>

\* a reduce that starts the transformation over
Grouped_Restart ==
    /\ pc = "grouping"
    /\ Len(grouped) = Len(getPossibleTypes(parentType))
    /\ pc' = "start"
    /\ UNCHANGED <<document, heap, rootSel, parentType, cfg, typeMap, grouped, out, err, docValid>>
    /\ UNCHANGED <<wrapVars, fedVars, fragVars>>

\* the reduce is over
Grouped ==
    /\ pc = "grouping"
    /\ Len(grouped) = Len(getPossibleTypes(parentType))
    /\ pc' = "compose"
    /\ UNCHANGED <<document, heap, rootSel, parentType, cfg, typeMap, grouped, out, err, docValid>>
    /\ UNCHANGED <<wrapVars, fedVars, fragVars>>

\* transformSelectionSet joins the branches and returns
Compose ==
    /\ pc = "compose"
    /\ out' = ComposeGrouped(grouped)
    /\ pc' = "done"
    /\ UNCHANGED <<document, heap, rootSel, parentType, cfg, typeMap, grouped, err, docValid>>
    /\ UNCHANGED <<wrapVars, fedVars, fragVars>>

Next ==
    \/ EmptySelection
    \/ Flatten
    \/ FlattenThrows
    \/ BuildType
    \/ BuildTypeThrows
    \/ Grouped
    \/ Compose

Spec == Init /\ [][Next]_vars

----------------------------------------------------------------------------
\* transformFragmentSelectionSetToTypes as a state machine: the fragment's own
\* selection set goes through _buildGroupedSelections against the fragment's
\* type condition, then the declarations are made.

\* the fragmentSuffix the caller passes
FragmentSuffixes == {"", "Fragment"}

InitFrag ==
    /\ \E doc \in Docs, i \in 1..Len(loadedFragments), c \in Configs, sfx \in FragmentSuffixes :
         LET a == AllocSeq(<<>>, Trees(doc, 1))
         IN  /\ document = a.h
             /\ heap = a.h
             /\ rootSel = a.ids
             /\ parentType = loadedFragments[i].onType
             /\ fragmentName = loadedFragments[i].name
             /\ suffixArg = sfx
             /\ cfg = c
             /\ docValid = \A j \in 1..Len(doc) : loadedFragments[i].onType \in doc[j].validOn
    /\ pc = "start"
    /\ typeMap = EmptyTypes
    /\ grouped = <<>>
    /\ out = <<>>
    /\ err = NoErr
    /\ declarations = <<>>
    /\ WrapIdle
    /\ FedIdle

\* lines 391-427 once _buildGroupedSelections has returned
DeclareFragment ==
    /\ pc = "compose"
    /\ declarations' = transformFragmentSelectionSetToTypes(grouped, fragmentName, suffixArg)
    /\ pc' = "declared"
    /\ UNCHANGED <<document, heap, rootSel, parentType, cfg, typeMap, grouped, out, err, docValid>>
    /\ UNCHANGED <<fragmentName, suffixArg>>
    /\ UNCHANGED <<wrapVars, fedVars>>

NextFrag ==
    \/ EmptySelection
    \/ Flatten
    \/ FlattenThrows
    \/ BuildType
    \/ BuildTypeThrows
    \/ Grouped
    \/ DeclareFragment

SpecFrag == InitFrag /\ [][NextFrag]_vars

----------------------------------------------------------------------------
\* wrapTypeWithModifiers, one level of the recursion at a time.  The call on a
\* type returns through its wrappers from the named type outwards: the named
\* type first, then each wrapper of wType from the last to the first.

MaxWrap == 4

Wrappers == {"L", "NN"}

\* the wrappings a schema can hold: a non-null never wraps a non-null
WrappedTypes ==
    { m \in UNION { [1..n -> Wrappers] : n \in 0..MaxWrap } :
        \A i \in 1..(Len(m) - 1) : ~(m[i] = "NN" /\ m[i + 1] = "NN") }

\* base type texts: a scalar, a nested selection set, a text that itself
\* reads as an optional
BaseTexts ==
    { <<Tok("Name")>>,
      <<Tok("{"), Tok("Name"), Tok("}")>>,
      <<Tok("Maybe"), Tok("<"), Tok("Name"), Tok(">")>> }

WrapConfigs == [immutableTypes : BOOLEAN, namespaced : BOOLEAN]

InitWrap ==
    /\ SelIdle
    /\ FedIdle
    /\ wType \in WrappedTypes
    /\ wBase \in BaseTexts
    /\ wCfg \in WrapConfigs
    /\ wDone = 0
    /\ wStarted = FALSE
    /\ tsText = <<>>
    /\ flowText = <<>>

\* the wrapper the recursion returns through next
NextWrapper == wType[Len(wType) - wDone]

\* the else branch: the named type
WrapNamed ==
    /\ ~wStarted
    /\ wStarted' = TRUE
    /\ tsText' = tsWrapNamed(wBase, wCfg)
    /\ flowText' = flowWrapNamed(wBase)
    /\ UNCHANGED <<wType, wBase, wCfg, wDone>>
    /\ UNCHANGED <<selVars, fedVars>>

\* the isListType branch
WrapList ==
    /\ wStarted
    /\ wDone < Len(wType)
    /\ NextWrapper = "L"
    /\ wDone' = wDone + 1
    /\ tsText' = tsWrapList(tsText, wCfg)
    /\ flowText' = flowWrapList(flowText)
    /\ UNCHANGED <<wType, wBase, wCfg, wStarted>>
    /\ UNCHANGED <<selVars, fedVars>>

\* the isNonNullType branch
WrapNonNull ==
    /\ wStarted
    /\ wDone < Len(wType)
    /\ NextWrapper = "NN"
    /\ wDone' = wDone + 1
    /\ tsText' = tsClearOptional(tsText, wCfg)
    /\ flowText' = flowClearOptional(flowText)
    /\ UNCHANGED <<wType, wBase, wCfg, wStarted>>
    /\ UNCHANGED <<selVars, fedVars>>

NextWrap ==
    \/ WrapNamed
    \/ WrapList
    \/ WrapNonNull

SpecWrap == InitWrap /\ [][NextWrap]_vars

----------------------------------------------------------------------------
\* ApolloFederation: construction over a schema, then one call of an operation

MaxFieldSetLen == 3

FieldSetSymbols == {"id", "name", " "}

FieldSetStrings == UNION { [1..n -> FieldSetSymbols] : n \in 0..MaxFieldSetLen }

NestedFieldSet == <<"{", "name", "}">>

\* the `key` directives of the type calls are made on
KeyLists ==
    { <<k>> : k \in FieldSetStrings }
    \cup { <<k, k2>> : k \in FieldSetStrings,
                       k2 \in { <<"name">>, <<"id", " ", "name">>, NestedFieldSet } }
    \cup { <<NestedFieldSet>>, << <<"id">>, <<"name">>, <<"id", " ", "name">> >> }

\* the `requires` directives of the field calls are made on
RequiresLists ==
    { <<>>, << <<"name">> >>, << <<"id", " ", "name">> >>, << <<"ghost">> >>,
      <<NestedFieldSet>>, << <<"name">>, <<"id">> >> }

RECURSIVE DirectivesOf(_, _, _)
DirectivesOf(name, values, i) ==
    IF i > Len(values) THEN <<>>
    ELSE <<Directive(name, values[i])>> \o DirectivesOf(name, values, i + 1)

External(b) == IF b THEN <<Directive("external", <<>>)>> ELSE <<>>

\* a field of the schema: its owner type, its base type, its directives
FieldDecl(owner, ownerKind, name, base, provides) ==
    [owner |-> owner, ownerKind |-> ownerKind, name |-> name, base |-> base,
     directives |-> DirectivesOf("provides", provides, 1)]

ProvidesOfAuthor ==
    { <<>>, << <<"name">> >>, << <<"id", " ", "name">> >>, << <<"name", " ">> >>,
      <<NestedFieldSet>> }

FedSchemas ==
    { << FieldDecl("Query", "object", <<"me">>, "User", p1),
         FieldDecl("Review", "object", <<"author">>, "User", p2),
         FieldDecl("User", "object", <<"reviews">>, "Review", p3),
         FieldDecl("Account", "interface", <<"owner">>, "User", p4) >> :
        p1 \in { <<>>, << <<"id">> >> },
        p2 \in ProvidesOfAuthor,
        p3 \in { <<>>, << <<"id">> >> },
        p4 \in { <<>>, << <<"name">> >> } }

TranslateCalls ==
    { FedCall("translateParentType",
              FedType("User", "object", DirectivesOf("key", keys, 1)),
              FedField(<<"__resolveReference">>, DirectivesOf("requires", req, 1)), <<>>) :
        keys \in KeyLists, req \in RequiresLists }
    \cup
    { FedCall("translateParentType", t, FedField(f, DirectivesOf("requires", req, 1)), <<>>) :
        t \in { FedType("User", "object", <<>>),
                FedType("Query", "object", DirectivesOf("key", << <<"id">> >>, 1)),
                FedType("__Meta", "object", DirectivesOf("key", << <<"id">> >>, 1)),
                FedType("Account", "interface", DirectivesOf("key", << <<"id">> >>, 1)) },
        f \in { <<"__resolveReference">>, <<"name">> },
        req \in { <<>>, << <<"name">> >> } }
    \cup
    { FedCall("translateParentType",
              FedType("User", "object", DirectivesOf("key", << <<"id">> >>, 1)),
              FedField(<<"name">>, DirectivesOf("requires", req, 1)), <<>>) :
        req \in { <<>>, << <<"name">> >> } }

SkipCalls ==
    { FedCall("skipField", t, FedField(f, External(e)), <<>>) :
        t \in { FedType("User", "object", DirectivesOf("key", << <<"id">> >>, 1)),
                FedType("User", "object", <<>>),
                FedType("Review", "object", DirectivesOf("key", << <<"id">> >>, 1)),
                FedType("Query", "object", DirectivesOf("key", << <<"id">> >>, 1)),
                FedType("__Meta", "object", DirectivesOf("key", << <<"id">> >>, 1)),
                FedType("Account", "interface", DirectivesOf("key", << <<"id">> >>, 1)) },
        f \in { <<"id">>, <<"name">> },
        e \in BOOLEAN }

InitFed ==
    /\ SelIdle
    /\ WrapIdle
    /\ fedEnabled \in BOOLEAN
    /\ fedSchema \in FedSchemas
    /\ fedPc = "new"
    /\ providesMap = <<>>
    /\ fedCall = NoCall
    /\ fedResult = NoResult

ConstructReturns(m) == m.err = "" /\ providesMap' = m.pm /\ fedPc' = "ready"
ConstructFails(m) == m.err # "" /\ providesMap' = providesMap /\ fedPc' = "failed"

\* the constructor: createMapOfProvides returns
Construct ==
    /\ fedPc = "new"
    /\ ConstructReturns(createMapOfProvides(fedSchema))
    /\ UNCHANGED <<fedEnabled, fedSchema, fedCall, fedResult>>
    /\ UNCHANGED <<selVars, wrapVars>>

\* the constructor: extractFieldSet throws
ConstructThrows ==
    /\ fedPc = "new"
    /\ ConstructFails(createMapOfProvides(fedSchema))
    /\ UNCHANGED <<fedEnabled, fedSchema, fedCall, fedResult>>
    /\ UNCHANGED <<selVars, wrapVars>>

Returned(call, result) ==
    /\ fedPc' = "returned"
    /\ fedCall' = call
    /\ fedResult' = result
    /\ UNCHANGED <<fedEnabled, fedSchema, providesMap>>
    /\ UNCHANGED <<selVars, wrapVars>>

SkipField ==
    /\ fedPc = "ready"
    /\ \E c \in SkipCalls :
        Returned(c, BoolResult(skipField(fedEnabled, providesMap, c.field, c.parent)))

TranslateParentType ==
    /\ fedPc = "ready"
    /\ \E c \in TranslateCalls :
        Returned(c, translateParentType(fedEnabled, c.field, c.parent))

FilterTypeNames ==
    /\ fedPc = "ready"
    /\ \E names \in { <<>>, <<"User", "_FieldSet">>, <<"_FieldSet", "User", "_FieldSet">> } :
        Returned(FedCall("filterTypeNames", NoType, NoField, names),
                 TextResult(filterTypeNames(fedEnabled, names)))

FilterFieldNames ==
    /\ fedPc = "ready"
    /\ \E names \in { <<>>, << <<"id">>, <<"__resolveReference">> >>,
                   << <<"__resolveReference">>, <<"name">> >> } :
        Returned(FedCall("filterFieldNames", NoType, NoField, names),
                 TextResult(filterFieldNames(fedEnabled, names)))

SkipDirective ==
    /\ fedPc = "ready"
    /\ \E name \in { "external", "requires", "provides", "key", "deprecated" } :
        Returned(FedCall("skipDirective", NoType, NoField, <<name>>),
                 BoolResult(skipDirective(fedEnabled, name)))

SkipScalar ==
    /\ fedPc = "ready"
    /\ \E name \in { "_FieldSet", "Date" } :
        Returned(FedCall("skipScalar", NoType, NoField, <<name>>),
                 BoolResult(skipScalar(fedEnabled, name)))

NextFed ==
    \/ Construct
    \/ ConstructThrows
    \/ SkipField
    \/ TranslateParentType
    \/ FilterTypeNames
    \/ FilterFieldNames
    \/ SkipDirective
    \/ SkipScalar

SpecFed == InitFed /\ [][NextFed]_vars

----------------------------------------------------------------------------
\* Properties of wrapTypeWithModifiers

\* the wrappers the recursion has returned through, outermost first
WrappedSoFar == SubSeq(wType, Len(wType) - wDone + 1, Len(wType))

\* a level is optional unless a non-null wraps it directly
Marker(mods, i) == IF i > 1 /\ mods[i - 1] = "NN" THEN <<>> ELSE <<"optional">>

RECURSIVE ExpectedFrom(_, _)
\* the levels of a type, read off its wrappers from the i-th on
ExpectedFrom(mods, i) ==
    IF i > Len(mods) THEN Marker(mods, i) \o <<"named">>
    ELSE IF mods[i] = "L" THEN Marker(mods, i) \o <<"sequence">> \o ExpectedFrom(mods, i + 1)
    ELSE ExpectedFrom(mods, i + 1)

RECURSIVE TsShape(_, _, _)
\* the levels a TypeScript text reads as
TsShape(text, wc, base) ==
    IF text = base THEN <<"named">>
    ELSE IF /\ Len(text) >= Len(TsPrefix(wc)) + 3
            /\ SubSeq(text, 1, Len(TsPrefix(wc)) + 2) = TsPrefix(wc) \o <<Tok("Maybe"), Tok("<")>>
            /\ text[Len(text)] = Tok(">")
    THEN <<"optional">> \o TsShape(SubSeq(text, Len(TsPrefix(wc)) + 3, Len(text) - 1), wc, base)
    ELSE IF /\ Len(text) >= 3
            /\ text[1] = Tok(IF wc.immutableTypes THEN "ReadonlyArray" ELSE "Array")
            /\ text[2] = Tok("<")
            /\ text[Len(text)] = Tok(">")
    THEN <<"sequence">> \o TsShape(SubSeq(text, 3, Len(text) - 1), wc, base)
    ELSE <<"malformed">>

RECURSIVE FlowShape(_, _)
\* the levels a Flow text reads as
FlowShape(text, base) ==
    IF text = base THEN <<"named">>
    ELSE IF Len(text) >= 1 /\ text[1] = Tok("?")
    THEN <<"optional">> \o FlowShape(SubSeq(text, 2, Len(text)), base)
    ELSE IF /\ Len(text) >= 3 /\ text[1] = Tok("Array") /\ text[2] = Tok("<")
            /\ text[Len(text)] = Tok(">")
    THEN <<"sequence">> \o FlowShape(SubSeq(text, 3, Len(text) - 1), base)
    ELSE <<"malformed">>

\* C10: at every level of the recursion the TypeScript text and the Flow text
\* read as the same levels, and these are the levels of the type wrapped so
\* far: the named type optional, each list a sequence that is itself optional,
\* each non-null taking away the one optional marker directly under it and
\* nothing else; the text after the last level is what the recursive function
\* returns for the whole type.
C10_WrapInsideOut ==
    wStarted =>
        /\ TsShape(tsText, wCfg, wBase) = ExpectedFrom(WrappedSoFar, 1)
        /\ FlowShape(flowText, wBase) = ExpectedFrom(WrappedSoFar, 1)
        /\ wDone = Len(wType) =>
             /\ tsText = tsWrapTypeWithModifiers(wBase, wType, wCfg)
             /\ flowText = flowWrapTypeWithModifiers(wBase, wType)

\* a non-null list of non-null lists of non-null named, fully wrapped
C10_Witness ==
    /\ wStarted
    /\ wDone = Len(wType)
    /\ wType = <<"NN", "L", "L", "NN">>
    /\ wCfg.namespaced
    /\ tsText # <<>> /\ flowText # <<>>

----------------------------------------------------------------------------
\* Properties of ApolloFederation

\* the names of a field set: the maximal runs of symbols without whitespace
FieldSetNames(s) ==
    { SubSeq(s, r[1], r[2]) :
        r \in { q \in (1..Len(s)) \X (1..Len(s)) :
                  /\ q[1] <= q[2]
                  /\ \A x \in q[1]..q[2] : ~IsWhitespace(s[x])
                  /\ (q[1] = 1 \/ IsWhitespace(s[q[1] - 1]))
                  /\ (q[2] = Len(s) \/ IsWhitespace(s[q[2] + 1])) } }

\* the names a sequence lists, each once
ListsOnce(names, set) ==
    /\ { names[j] : j \in 1..Len(names) } = set
    /\ \A j, k \in 1..Len(names) : names[j] = names[k] => j = k

\* the values of the directives named `name` on a node, in order
FieldSetsOf(name, node) ==
    LET ds == getDirectivesByName(name, node)
    IN  [i \in 1..Len(ds) |-> ds[i].fields]

\* a __resolveReference call on an object type with keys, federation enabled,
\* whose field sets are plain, each key naming a field, and whose required
\* names are fields of the type
C7_Case ==
    /\ fedPc = "returned"
    /\ fedCall.op = "translateParentType"
    /\ fedEnabled
    /\ fedCall.parent.kind = "object"
    /\ fedCall.parent.name = "User"
    /\ fedCall.field.name = <<"__resolveReference">>
    /\ Len(FieldSetsOf("key", fedCall.parent)) >= 1
    /\ \A i \in 1..Len(FieldSetsOf("key", fedCall.parent)) :
         /\ ~HasBraces(FieldSetsOf("key", fedCall.parent)[i])
         /\ FieldSetNames(FieldSetsOf("key", fedCall.parent)[i]) # {}
    /\ \A i \in 1..Len(FieldSetsOf("requires", fedCall.field)) :
         /\ ~HasBraces(FieldSetsOf("requires", fedCall.field)[i])
         /\ FieldSetNames(FieldSetsOf("requires", fedCall.field)[i]) \subseteq FedFieldsOf("User")

\* the text expected of n key projections and the requires projection
C7_Expected(text, keys, requires) ==
    LET n == Len(keys)
        at(i) == IF n = 1 THEN 1 ELSE 2 * i
        m == IF n = 1 THEN 1 ELSE 2 * n + 1
    IN  /\ Len(text) = m + (IF Len(requires) > 0 THEN 2 ELSE 0)
        /\ n > 1 => /\ text[1] = FTok("(")
                    /\ text[m] = FTok(")")
                    /\ \A i \in 1..(n - 1) : text[2 * i + 1] = FTok("|")
        /\ \A i \in 1..n :
             /\ text[at(i)].kind = "Pick"
             /\ ListsOnce(text[at(i)].names, FieldSetNames(keys[i]))
        /\ Len(requires) > 0 =>
             /\ text[m + 1] = FTok("&")
             /\ text[m + 2].kind = "Pick"
             /\ { text[m + 2].names[j] : j \in 1..Len(text[m + 2].names) }
                  = UNION { FieldSetNames(requires[i]) : i \in 1..Len(requires) }

\* C7: with federation enabled, translateParentType for __resolveReference of
\* an object type with n >= 1 key directives returns one Pick per key, holding
\* exactly the names of the key's field set, each once and none empty; for
\* n > 1 the Picks are a parenthesised union in directive order; a requires
\* directive adds `& Pick` of the required names after the whole of it.
C7_KeyProjection ==
    C7_Case =>
        /\ fedResult.err = ""
        /\ C7_Expected(fedResult.text, FieldSetsOf("key", fedCall.parent),
                       FieldSetsOf("requires", fedCall.field))

\* the provides annotations that list a field of a type, over the fields of
\* the schema whose owner is of one of the kinds
ProvidedOn(schema, typeName, fieldName, ownerKinds) ==
    \E i \in 1..Len(schema) :
        /\ schema[i].ownerKind \in ownerKinds
        /\ schema[i].base = typeName
        /\ \E j \in 1..Len(FieldSetsOf("provides", schema[i])) :
             fieldName \in FieldSetNames(FieldSetsOf("provides", schema[i])[j])

HasDirective(node, name) == \E i \in 1..Len(node.directives) : node.directives[i].name = name

C8_Case == fedPc = "returned" /\ fedCall.op = "skipField"

\* C8 as stated: with federation enabled, skipField is true for a field of an
\* object type exactly when the field is external and no provides annotation
\* anywhere in the schema, on a field whose base type is that type, lists it;
\* with federation disabled it is false.
C8_SkipExternalNotProvided ==
    C8_Case =>
        /\ ~fedEnabled => fedResult.bool = FALSE
        /\ fedEnabled /\ fedCall.parent.kind = "object" =>
             fedResult.bool =
                 (/\ HasDirective(fedCall.field, "external")
                  /\ ~ProvidedOn(fedSchema, fedCall.parent.name, fedCall.field.name,
                                 {"object", "interface"}))

\* C8 amended: with federation enabled, skipField is true for a field of an
\* object type exactly when the type carries a key directive, is not Query,
\* Mutation or Subscription, has no name beginning with `__`, the field is
\* external, and no provides annotation on a field of an object type whose
\* base type is that type lists it; with federation disabled it is false.
C8_SkipFederatedExternalNotProvided ==
    C8_Case =>
        /\ ~fedEnabled => fedResult.bool = FALSE
        /\ fedEnabled /\ fedCall.parent.kind = "object" =>
             fedResult.bool =
                 (/\ HasDirective(fedCall.parent, "key")
                  /\ fedCall.parent.name \notin {"Query", "Mutation", "Subscription", "__Meta"}
                  /\ HasDirective(fedCall.field, "external")
                  /\ ~ProvidedOn(fedSchema, fedCall.parent.name, fedCall.field.name, {"object"}))

\* an external field of a keyed object type that a provides annotation lists
\* is kept, next to a schema where an interface field's provides is not read
C8_Witness ==
    /\ C8_Case
    /\ fedEnabled
    /\ fedCall.parent.kind = "object"
    /\ HasDirective(fedCall.parent, "key")
    /\ HasDirective(fedCall.field, "external")
    /\ ProvidedOn(fedSchema, fedCall.parent.name, fedCall.field.name, {"object"})
    /\ fedResult.bool = FALSE

----------------------------------------------------------------------------
\* Properties of the selection-set transformation

Range(xs) == { xs[i] : i \in 1..Len(xs) }

PossibleSet(t) == Range(getPossibleTypes(t))

\* buildSelectionSetString has returned for type t
Built(t) == \E i \in 1..Len(grouped) : grouped[i].typeName = t

\* the text composed for type t, the empty text when it was null
BranchOf(t) ==
    IF \E i \in 1..Len(grouped) : grouped[i].typeName = t /\ grouped[i].sets # <<>>
    THEN grouped[CHOOSE i \in 1..Len(grouped) : grouped[i].typeName = t].sets[1]
    ELSE <<>>

\* the places of the entries of a text's pieces: <<token, entry>>
EntryPlaces(text) ==
    UNION { { <<i, j>> : j \in 1..Len(text[i].entries) } : i \in 1..Len(text) }

EntryAt(text, p) == text[p[1]].entries[p[2]]

EntryNames(text) == { EntryAt(text, p).name : p \in EntryPlaces(text) }

\* how many entries of the text carry the response key k
KeyCount(text, k) == Cardinality({ p \in EntryPlaces(text) : EntryAt(text, p).name = k })

\* the field nodes attached to type t by flattenSelectionSet
FieldItems(t) ==
    { typeMap.items[t][i].id :
        i \in { j \in 1..Len(typeMap.items[t]) :
                  /\ typeMap.items[t][j].tag = "node"
                  /\ document[typeMap.items[t][j].id].kind = "Field" } }

ResponseKey(id) == IF document[id].alias # "" THEN document[id].alias ELSE document[id].name

ResponseKeys(ids) == { ResponseKey(id) : id \in ids }

RECURSIVE UnconditionedFields(_, _)
\* the fields selected with no type condition under interface I: directly, or
\* inside inline fragments with no condition or with condition I
UnconditionedFields(ids, I) ==
    { id \in Range(ids) : document[id].kind = "Field" }
    \cup UNION { UnconditionedFields(document[id].sel, I) :
                   id \in { x \in Range(ids) : /\ document[x].kind = "InlineFragment"
                                               /\ document[x].cond \in {"", I} } }

Flattened == pc \in {"grouping", "compose", "done"}

\* C1: under an interface parent, every field selected with no type condition
\* (directly, or inside an inline fragment repeating the interface) is attached
\* to every possible type and is an entry of every possible type's shape, and
\* the unconditioned fields of any two possible types' shapes are the same.
C1_InterfaceFanOut ==
    (Flattened /\ isInterfaceType(parentType)) =>
        /\ \A t \in PossibleSet(parentType) :
             /\ UnconditionedFields(rootSel, parentType) \subseteq FieldItems(t)
             /\ Built(t) =>
                  ResponseKeys(UnconditionedFields(rootSel, parentType))
                      \subseteq EntryNames(BranchOf(t))
        /\ \A a, b \in PossibleSet(parentType) :
             (Built(a) /\ Built(b)) =>
                 EntryNames(BranchOf(a)) \cap ResponseKeys(UnconditionedFields(rootSel, parentType))
                 = EntryNames(BranchOf(b)) \cap ResponseKeys(UnconditionedFields(rootSel, parentType))

\* an interface selection with a direct field and a field inside a fragment
\* repeating the interface, transformed to the end
C1_Witness ==
    /\ pc = "done"
    /\ isInterfaceType(parentType)
    /\ \E id \in UnconditionedFields(rootSel, parentType) : id \in Range(rootSel)
    /\ \E id \in UnconditionedFields(rootSel, parentType) : id \notin Range(rootSel)
    /\ \A t \in PossibleSet(parentType) : BranchOf(t) # <<>>

\* the link-field selections attached to type t
LinkOccurrences(t) == { id \in FieldItems(t) : document[id].sel # <<>> }

\* the fields selected directly under a link-field selection
SubFields(id) == { c \in Range(document[id].sel) : document[c].kind = "Field" }

\* the link entries of a text with response key k
LinkPlaces(text, k) ==
    { p \in EntryPlaces(text) : EntryAt(text, p).tkind = "link" /\ EntryAt(text, p).name = k }

\* C2: in the shape of every type, each response key of a link-field selection
\* attached to the type has exactly one link entry, and the nested shape of
\* that entry holds every sub-field of every selection sharing the key.
C2_LinkFieldsMerge ==
    \A t \in ObjectTypes :
        Built(t) =>
            \A id \in LinkOccurrences(t) :
                /\ Cardinality(LinkPlaces(BranchOf(t), ResponseKey(id))) = 1
                /\ \A p \in LinkPlaces(BranchOf(t), ResponseKey(id)) :
                     ResponseKeys(SubFields(id)) \subseteq EntryNames(EntryAt(BranchOf(t), p).text)

\* two link selections of one type share a response key and differ in sub-fields
C2_Witness ==
    /\ pc = "done"
    /\ \E t \in ObjectTypes :
         /\ Built(t)
         /\ \E a, b \in LinkOccurrences(t) :
              /\ a # b
              /\ ResponseKey(a) = ResponseKey(b)
              /\ ResponseKeys(SubFields(a)) # ResponseKeys(SubFields(b))

RECURSIVE AssertingFragments(_, _)
\* the inline fragments with type condition t, at any depth of fragments
AssertingFragments(ids, t) ==
    { id \in Range(ids) : document[id].kind = "InlineFragment" /\ document[id].cond = t }
    \cup UNION { AssertingFragments(document[id].sel, t) :
                   id \in { x \in Range(ids) : document[x].kind = "InlineFragment" } }

\* C3: when two or more inline fragments of a selection assert the same
\* concrete type, the shape of that type holds every field attached to the
\* type, and every response key of the shape occurs in it exactly once.
C3_SameTypeFragmentsUnion ==
    \A t \in ObjectTypes :
        (Built(t) /\ Cardinality(AssertingFragments(rootSel, t)) >= 2) =>
            /\ ResponseKeys(FieldItems(t)) \subseteq EntryNames(BranchOf(t))
            /\ \A k \in EntryNames(BranchOf(t)) : KeyCount(BranchOf(t), k) = 1

\* __typename was selected, unaliased, among the fields attached to type t
QueriedTypename(t) ==
    \E id \in FieldItems(t) :
        document[id].name = "__typename" /\ document[id].alias = "" /\ document[id].sel = <<>>

\* the discriminant entries of a text
TypenamePlaces(text) ==
    { p \in EntryPlaces(text) : EntryAt(text, p).tkind = "literal" }

\* C4: the discriminant of a type's shape: none when nonOptionalTypename,
\* addTypename and queried are all false; otherwise exactly one, named
\* __typename, typed as the literal of the concrete type's name, optional
\* exactly when it was not queried and nonOptionalTypename is false.
C4_TypenameDecision ==
    \A t \in ObjectTypes :
        Built(t) =>
            IF ~cfg.nonOptionalTypename /\ ~cfg.addTypename /\ ~QueriedTypename(t)
            THEN TypenamePlaces(BranchOf(t)) = {}
            ELSE /\ Cardinality(TypenamePlaces(BranchOf(t))) = 1
                 /\ \A p \in TypenamePlaces(BranchOf(t)) :
                      /\ EntryAt(BranchOf(t), p).name = "__typename"
                      /\ EntryAt(BranchOf(t), p).base = t
                      /\ EntryAt(BranchOf(t), p).optional
                           = (~QueriedTypename(t) /\ ~cfg.nonOptionalTypename)

\* addTypename alone: a present, optional discriminant
C4_Witness ==
    \E t \in ObjectTypes :
        /\ Built(t)
        /\ cfg.addTypename /\ ~cfg.nonOptionalTypename /\ ~QueriedTypename(t)
        /\ \E p \in TypenamePlaces(BranchOf(t)) : EntryAt(BranchOf(t), p).optional

\* the possible types of the parent whose composed text is not null, in order
Contributing == SelectSeq(getPossibleTypes(parentType), LAMBDA t : BranchOf(t) # <<>>)

RECURSIVE UnionOf(_, _)
\* the first k branches, a union operator between neighbours
UnionOf(ts, k) ==
    IF k = 0 THEN <<>>
    ELSE IF k = 1 THEN BranchOf(ts[1])
    ELSE UnionOf(ts, k - 1) \o <<Tok("|")>> \o BranchOf(ts[k])

\* C5: what transformSelectionSet returns: the empty text when no possible
\* type contributes, the one contributing type's text bare, otherwise the
\* contributing types' texts in possible-types order with exactly one union
\* operator between neighbours.
C5_JoinBranches ==
    pc = "done" =>
        /\ Len(Contributing) = 0 => out = <<>>
        /\ Len(Contributing) = 1 => out = BranchOf(Contributing[1])
        /\ out = UnionOf(Contributing, Len(Contributing))
        /\ Len(Contributing) >= 1 =>
             Cardinality({ i \in 1..Len(out) : out[i] = Tok("|") }) = Len(Contributing) - 1

\* both members of a union parent contribute
C5_Witness ==
    /\ pc = "done"
    /\ Len(Contributing) = 2
    /\ \E i \in 1..Len(out) : out[i] = Tok("|")

\* the top-level spreads of fragments that are loaded
TopSpreads ==
    { id \in Range(rootSel) :
        document[id].kind = "FragmentSpread" /\ FindFragment(document[id].name) # 0 }

\* the type condition of the fragment a spread names
ConditionOf(id) == loadedFragments[FindFragment(document[id].name)].onType

UsagePlaces(text) == { i \in 1..Len(text) : text[i].kind = "usage" }

UsageNames(text) == { text[i].tok.name : i \in UsagePlaces(text) }

RecordPlaces(text) ==
    { i \in 1..Len(text) : text[i].kind \in {"typename", "pick", "aliases", "links", "object"} }

\* ( record & ... & token )
IsIntersection(text) ==
    /\ Len(text) >= 5
    /\ text[1] = Tok("(") /\ text[Len(text)] = Tok(")")
    /\ RecordPlaces(text) # {} /\ UsagePlaces(text) # {}
    /\ \A i \in 2..(Len(text) - 1) : (i % 2 = 1) <=> (text[i] = Tok("&"))

\* the token of every top-level spread of a loaded fragment is in the branch
\* of exactly the types possible for both the fragment's condition and the parent
SpreadTokensPlaced ==
    \A T \in ObjectTypes : \A s \in TopSpreads :
        (document[s].name \in UsageNames(BranchOf(T)))
            <=> (T \in PossibleSet(ConditionOf(s)) \cap PossibleSet(parentType))

\* C6 as stated: the token of a top-level spread is in the branch of exactly
\* the types possible for both the fragment's condition and the parent; a type
\* with literal fields gets the intersection of its record and the token, a
\* type with no literal fields gets the token alone.
C6_SpreadTokenAlone ==
    pc = "done" =>
        /\ SpreadTokensPlaced
        /\ \A T \in PossibleSet(parentType) :
             UsagePlaces(BranchOf(T)) # {} =>
                 /\ FieldItems(T) # {} => IsIntersection(BranchOf(T))
                 /\ (FieldItems(T) = {} /\ Cardinality(UsagePlaces(BranchOf(T))) = 1) =>
                        Len(BranchOf(T)) = 1

\* C6 amended: the token of a top-level spread is in the branch of exactly the
\* types possible for both the fragment's condition and the parent; a type with
\* literal fields, or with a discriminant added by addTypename or
\* nonOptionalTypename, gets the intersection of its record and the token; a
\* type with neither gets the token alone.
C6_SpreadTokenPlacement ==
    pc = "done" =>
        /\ SpreadTokensPlaced
        /\ \A T \in PossibleSet(parentType) :
             UsagePlaces(BranchOf(T)) # {} =>
                 /\ (FieldItems(T) # {} \/ cfg.addTypename \/ cfg.nonOptionalTypename) =>
                        IsIntersection(BranchOf(T))
                 /\ (/\ FieldItems(T) = {} /\ ~cfg.addTypename /\ ~cfg.nonOptionalTypename
                     /\ Cardinality(UsagePlaces(BranchOf(T))) = 1) =>
                        Len(BranchOf(T)) = 1

\* F on Node spread next to `... on Dog { ... }` under parent Node, no
\* discriminant flags: Dog's branch an intersection, Cat's the token alone
C6_Witness ==
    /\ pc = "done"
    /\ parentType = "Node"
    /\ ~cfg.addTypename /\ ~cfg.nonOptionalTypename
    /\ \E s \in TopSpreads : document[s].name = "F"
    /\ IsIntersection(BranchOf("Dog"))
    /\ Len(BranchOf("Cat")) = 1 /\ UsageNames(BranchOf("Cat")) = {"F"}

\* the fields attached to type T that T does not have
MissingFields(T) ==
    { id \in FieldItems(T) :
        /\ document[id].name \notin DOMAIN getFields(T)
        /\ ~isMetadataFieldName(document[id].name)
        /\ document[id].name # "__typename" }

\* C9: when a selected field, with or without a nested selection, does not
\* exist on the concrete type it was attached to, transformSelectionSet returns
\* no text: it fails, with an error naming the type and the field.
C9_MissingFieldFails ==
    (\E T \in PossibleSet(parentType) : MissingFields(T) # {}) =>
        /\ pc # "done"
        /\ out = <<>>
        /\ pc = "failed" =>
             \E T \in PossibleSet(parentType) : \E id \in MissingFields(T) :
                 err = CouldNotFind(T, document[id].name)

\* the fields selected directly under the parent, outside any inline fragment
DirectFields == { id \in Range(rootSel) : document[id].kind = "Field" }

\* __typename is among the fields selected directly under the parent
DirectTypename ==
    \E id \in DirectFields :
        document[id].name = "__typename" /\ document[id].alias = "" /\ document[id].sel = <<>>

\* C11: whatever the kind of the parent (object, interface, union), every field
\* a valid document selects directly under it is attached to every possible type of the
\* parent; a __typename selected directly counts as queried for every possible
\* type, so each built shape has a discriminant that is present and not
\* optional, whatever addTypename and nonOptionalTypename are.
C11_DirectFieldsEveryType ==
    (Flattened /\ docValid) =>
        \A t \in PossibleSet(parentType) :
            /\ DirectFields \subseteq FieldItems(t)
            /\ (DirectTypename /\ Built(t)) =>
                 /\ TypenamePlaces(BranchOf(t)) # {}
                 /\ \A p \in TypenamePlaces(BranchOf(t)) : ~EntryAt(BranchOf(t), p).optional

RECURSIVE SelectedFields(_)
\* the fields of a selection set: directly, or inside its inline fragments
SelectedFields(ids) ==
    { id \in Range(ids) : document[id].kind = "Field" }
    \cup UNION { SelectedFields(document[id].sel) :
                   id \in { x \in Range(ids) : document[x].kind = "InlineFragment" } }

\* the response keys the document requests under the link selections of
\* response key k that are attached to type t
RequestedUnder(t, k) ==
    UNION { ResponseKeys(SelectedFields(document[id].sel)) :
              id \in { x \in LinkOccurrences(t) : ResponseKey(x) = k } }

\* the field and link entries of a text (not the discriminant)
SelectedEntryNames(text) ==
    { EntryAt(text, p).name :
        p \in { q \in EntryPlaces(text) : EntryAt(text, q).tkind \in {"field", "link"} } }

\* C12: the nested shape of a link field of concrete type B holds only
\* sub-fields that the selections attached to B request under that response
\* key: nothing requested only under a fragment on another concrete type,
\* whatever the order of the fragments and of the possible types.
C12_NoLeakBetweenTypes ==
    \A B \in ObjectTypes :
        Built(B) =>
            \A p \in EntryPlaces(BranchOf(B)) :
                EntryAt(BranchOf(B), p).tkind = "link" =>
                    SelectedEntryNames(EntryAt(BranchOf(B), p).text)
                        \subseteq RequestedUnder(B, EntryAt(BranchOf(B), p).name)

\* C13: for a non-empty selection, the keys of the map flattenSelectionSet
\* returns are exactly the possible types of the parent: every possible type
\* has an entry, also one no selection touches, and no other type has one.
C13_MapCoversPossibleTypes ==
    (Flattened /\ rootSel # <<>>) => Range(typeMap.keys) = PossibleSet(parentType)

\* the top-level inline fragments whose type condition names an interface
InterfaceFragments ==
    { id \in Range(rootSel) :
        document[id].kind = "InlineFragment" /\ isInterfaceType(document[id].cond) }

\* the fields and the spreads of loaded fragments directly inside a fragment
FragmentFields(f) == { c \in Range(document[f].sel) : document[c].kind = "Field" }

FragmentSpreads(f) ==
    { c \in Range(document[f].sel) :
        document[c].kind = "FragmentSpread" /\ FindFragment(document[c].name) # 0 }

\* the object type declares the interface
Implements(O, J) == InSeq(O, Implementors(J))

\* the names of the usage tokens attached to type t
UsageItemNames(t) ==
    { typeMap.items[t][i].tok.name :
        i \in { j \in 1..Len(typeMap.items[t]) : typeMap.items[t][j].tag = "usage" } }

\* C14: under an object parent O, a fragment on an interface that O implements
\* attaches its fields and the usage tokens of its spreads to O, and a valid
\* document is transformed without error, whatever the schema's object types
\* have as isTypeOf; a fragment on an interface O does not implement attaches
\* nothing to O.
C14_ImplementedInterfaceAttaches ==
    isObjectType(parentType) =>
        \A f \in InterfaceFragments :
            IF Implements(parentType, document[f].cond)
            THEN /\ docValid => pc # "failed"
                 /\ Flattened =>
                      /\ FragmentFields(f) \subseteq FieldItems(parentType)
                      /\ \A c \in FragmentSpreads(f) :
                           parentType \in PossibleSet(ConditionOf(c)) =>
                               document[c].name \in UsageItemNames(parentType)
            ELSE Flattened => FragmentFields(f) \cap FieldItems(parentType) = {}

\* the top-level inline fragments that carry a type condition
ConditionedFragments ==
    { id \in Range(rootSel) : document[id].kind = "InlineFragment" /\ document[id].cond # "" }

\* the concrete types a field node is attached to
AttachedTo(id) == { T \in ObjectTypes : id \in FieldItems(T) }

\* the concrete types a fragment with condition c applies to under union U
UnionTargets(U, c) ==
    IF isInterfaceType(c) THEN Range(UnionMembers(U)) \cap Range(Implementors(c))
    ELSE IF isObjectType(c) /\ InSeq(c, UnionMembers(U)) THEN {c}
    ELSE {}

\* C15: under a union parent U, the fields of a fragment on an interface J
\* (a fragment of the union's own selection) are
\* attached to exactly the members of U that implement J, those of a fragment
\* on a member to that member only, those of a fragment on an object type that
\* is not a member to no type; and no shape is built for a type outside U.
C15_UnionFanOut ==
    (Flattened /\ isUnionType(parentType)) =>
        /\ \A f \in ConditionedFragments : \A x \in FragmentFields(f) :
             AttachedTo(x) = UnionTargets(parentType, document[f].cond)
        /\ \A T \in ObjectTypes : Built(T) => T \in Range(UnionMembers(parentType))

\* `... on Node { ... }` next to `... on Cat { ... }` under Thing = Dog | Person:
\* the first reaches Dog and not Person, the second no type
C15_Witness ==
    /\ pc = "done"
    /\ parentType = "Thing"
    /\ \E f \in ConditionedFragments : \E x \in FragmentFields(f) :
         /\ document[f].cond = "Node"
         /\ AttachedTo(x) = {"Dog"}
    /\ \E f \in ConditionedFragments : \E x \in FragmentFields(f) :
         /\ document[f].cond = "Cat"
         /\ AttachedTo(x) = {}
    /\ BranchOf("Dog") # <<>>
    /\ BranchOf("Person") = <<>>

RECURSIVE NestingDepth(_)
\* the levels of selection sets in the document below a selection set: itself,
\* and the deepest selection set of a link field or inline fragment in it
NestingDepth(ids) ==
    1 + Max({0} \cup { NestingDepth(document[ids[i]].sel) :
                         i \in { j \in 1..Len(ids) : document[ids[j]].sel # <<>> } })

\* the fragments a fragment reaches through the spreads of the definitions
Reaches(name) ==
    LET step(S) == S \cup UNION { Range(loadedFragments[i].spreads) :
                                    i \in { j \in 1..Len(loadedFragments) :
                                              loadedFragments[j].name \in S } }
        first == IF FindFragment(name) = 0 THEN {}
                 ELSE Range(loadedFragments[FindFragment(name)].spreads)
    IN  step(step(step(first)))

\* the loaded fragment spreads itself, directly or through others
OnCycle(name) == name \in Reaches(name)

\* the spreads of the document, at any depth
DocumentSpreads == { i \in 1..Len(document) : document[i].kind = "FragmentSpread" }

Finished == pc \in {"done", "failed"}

\* the steps the transformation can still take: the join, one per possible
\* type not yet built and the end of the reduce, the flattening before them
StepsLeft ==
    IF Finished THEN 0
    ELSE IF pc = "compose" THEN 1
    ELSE IF pc = "grouping" THEN 2 + Len(getPossibleTypes(parentType)) - Len(grouped)
    ELSE 3 + Len(getPossibleTypes(parentType))

\* a step of the transformation can be taken: the guards of the actions, each
\* call of which either returns or throws
CanStep ==
    \/ pc = "start"
    \/ pc = "grouping" /\ Len(grouped) <= Len(getPossibleTypes(parentType))
    \/ pc = "compose"

\* the recursion never runs deeper than the document nests selection sets
\* (plus the outermost call and the call on the synthetic fragment)
DepthBounded == TransformFrames(heap, rootSel) <= NestingDepth(rootSel) + 2

----------------------------------------------------------------------------
\* C17

\* the tokens buildFragmentSpreadsUsage emits, per concrete type, at a spread
\* of the fragment being declared
SpreadTokens == SpreadUsageTypes(EmptyUsage, fragmentName, getPossibleTypes(parentType), 1).toks

\* the names transformFragmentSelectionSetToTypes has declared
DeclaredNames == {declarations[i].name : i \in 1..Len(declarations)}

\* the declaration was made with the suffix the spread sites use
SuffixAgrees ==
    \A T \in ObjectTypes : \A k \in 1..Len(SpreadTokens[T]) : SpreadTokens[T][k].suffix = suffixArg

\* C17: once a valid fragment with a non-empty selection set has been declared
\* with the suffix its spread sites use, every token a spread of it emits for a
\* concrete type is the name of one of the fragment's declarations.
C17_SpreadNamesDeclared ==
    (pc = "declared" /\ docValid /\ rootSel # <<>> /\ SuffixAgrees) =>
        \A T \in ObjectTypes : \A k \in 1..Len(SpreadTokens[T]) :
            SpreadTokens[T][k] \in DeclaredNames

----------------------------------------------------------------------------
\* C18

\* the parent of a call is one translateParentType may translate, as the claim
\* words it
TranslatableParent(call) ==
    /\ call.parent.kind = "object"
    /\ \E i \in 1..Len(call.parent.directives) : call.parent.directives[i].name = "key"
    /\ call.parent.name \notin {"Query", "Mutation", "Subscription"}
    /\ call.field.name = <<"__resolveReference">>

\* what a call returns when the translator does nothing
InertResult(call) ==
    CASE call.op \in {"filterTypeNames", "filterFieldNames"} -> TextResult(call.arg)
      [] call.op \in {"skipDirective", "skipScalar", "skipField"} -> BoolResult(FALSE)
      [] call.op = "translateParentType" -> TextResult(<<SigTok>>)

\* C18: with federation disabled the constructor does not fail, whatever the
\* schema's field sets are, and every operation returns what an inert translator
\* returns; with federation enabled translateParentType returns the base
\* signature unless the parent is a keyed object type other than the root types
\* and the field is __resolveReference.
C18_DisabledIsInert ==
    /\ ~fedEnabled => fedPc # "failed"
    /\ (~fedEnabled /\ fedPc = "returned") => fedResult = InertResult(fedCall)
    /\ (fedEnabled /\ fedPc = "returned" /\ fedCall.op = "translateParentType"
            /\ ~TranslatableParent(fedCall)) => fedResult = TextResult(<<SigTok>>)

====
